---- MODULE Spec2Model ----
(***************************************************************************)
(* State-machine model of the XP accounting and crown-role reconciliation  *)
(* engine of the community bot (latest revision of bot.js, with the        *)
(* differences of the earlier revision noted where they matter).           *)
(*                                                                         *)
(* Strings are sequences of UTF-16 code units; a code unit is written as   *)
(* a one-character string, or as the hexadecimal name of the unit for the  *)
(* badge glyphs.                                                           *)
(***************************************************************************)
EXTENDS Integers, Sequences, FiniteSets, TLC

VARIABLES
  now,              \* Date.now(), in milliseconds
  DBxp,             \* DB.xp: key -> ledger entry
  xpOrder,          \* the keys of DB.xp in Object.entries order (insertion order)
  saveTimer,        \* the pending debounce timer of saveData: its due time, or NoTimer
  pendingSaves,     \* runtime: the due times of the timeouts set by saveData that have
                    \* neither fired nor been cleared
  DBmembers,        \* DB.members: key -> [joinedAt, newbieSince, originalNick]
  DBfields,         \* the property names of the object DB
  disk,             \* the document last written to DATA_FILE
  messageCooldown,  \* the messageCooldown map: cdKey -> timestamp
  voiceActive,      \* the voiceActive map: guild id -> set of user ids
  liveVoice,        \* platform: member -> live voice state (member.voice)
  roles,            \* platform: member -> set of role names held
  nick,             \* platform: member -> current display name
  guildRoles,       \* platform: guild id -> set of role names that exist in the guild
  last,             \* what the most recent handler step put out: the addXP call it made,
                    \* the channel messages it sent, its reply to the command
  lastAward,        \* history: cdKey -> time of the last message that earned text XP
  lastNotified,     \* history: member -> destination channel of its latest voice-state notification
  pass,             \* the reconciliation pass in progress, per caller
  tempRoleTimers,   \* the tempRoleTimers map: guild:member:role key -> id of its timeout
  timeouts          \* runtime: the timeouts set by /temprole that have not finished

ledgerVars   == <<DBxp, xpOrder, saveTimer, pendingSaves, disk, DBmembers, DBfields>>
timerVars    == <<tempRoleTimers, timeouts>>
activityVars == <<messageCooldown, voiceActive, liveVoice, lastAward, lastNotified, timerVars>>
platformVars == <<roles, nick, guildRoles>>
\* the state of the program and of the platform, without the history variables
progVars == <<now, DBxp, xpOrder, saveTimer, pendingSaves, disk, DBmembers, DBfields, messageCooldown, voiceActive,
              liveVoice, roles, nick, guildRoles, tempRoleTimers, timeouts>>
vars == <<now, DBxp, xpOrder, saveTimer, pendingSaves, disk, DBmembers, DBfields, messageCooldown, voiceActive,
          liveVoice, roles, nick, guildRoles, last, lastAward, lastNotified, pass,
          tempRoleTimers, timeouts>>

----------------------------------------------------------------------------
(* Bounds of the model *)

\* Date.now() at process start; far beyond one cooldown window, as any real clock is
StartTime == 100000
\* the clock stops advancing after this many milliseconds of run time
MaxElapsed == 70000
\* ledger counters are kept at or below this by the guards of /givexp under SpecLedger
MaxXp == 114

----------------------------------------------------------------------------
(* Program constants *)

MESSAGE_XP == 15
VOICE_XP_PER_MIN == 5
MESSAGE_COOLDOWN_MS == 60 * 1000
SAVE_DEBOUNCE_MS == 500
NICK_MAX == 32
\* XP_BASE = 100, XP_GROWTH = 1.25 = XP_GROWTH_NUM / XP_GROWTH_DEN
XP_BASE == 100
XP_GROWTH_NUM == 5
XP_GROWTH_DEN == 4

NoTimer == -1
Null == <<>>

----------------------------------------------------------------------------
(* Identifiers: guild and user ids are strings *)

G1 == <<"g">>
G2 == <<"g", "x">>
A  == <<"A">>
B  == <<"B">>
Guilds == {G1, G2}
Users  == {A, B}
\* guild.members.fetch(): the members of a guild, in the order of iteration
MemberOrder == <<A, B>>
Members == Guilds \X Users

Min(a, b) == IF a <= b THEN a ELSE b
Max(a, b) == IF a >= b THEN a ELSE b

\* String.prototype.startsWith
StartsWith(s, p) == Len(s) >= Len(p) /\ SubSeq(s, 1, Len(p)) = p

\* index of the first occurrence of code unit c in s at or after position i, or 0
RECURSIVE IndexOf(_, _, _)
IndexOf(s, c, i) ==
  IF i > Len(s) THEN 0
  ELSE IF s[i] = c THEN i
  ELSE IndexOf(s, c, i + 1)

\* k.split(':')[1]: the text between the first and the second colon
SplitSecond(k) ==
  LET i == IndexOf(k, ":", 1) IN
  IF i = 0 THEN Null
  ELSE LET j == IndexOf(k, ":", i + 1) IN
       SubSeq(k, i + 1, IF j = 0 THEN Len(k) ELSE j - 1)

mkey(guildId, userId) == guildId \o <<":">> \o userId
cdKeyOf(key) == <<"m", "s", "g", ":">> \o key

----------------------------------------------------------------------------
(* Level curve *)

RECURSIVE Pow(_, _)
Pow(b, e) == IF e <= 0 THEN 1 ELSE b * Pow(b, e - 1)

CeilDiv(n, d) == (n + d - 1) \div d

\* a faulty threshold: level 1 costs nothing
totalXpForLevelFromOne(level) ==
  IF level <= 1 THEN 0
  ELSE CeilDiv(XP_BASE * (Pow(XP_GROWTH_NUM, level) - Pow(XP_GROWTH_DEN, level)) * XP_GROWTH_DEN,
               Pow(XP_GROWTH_DEN, level) * (XP_GROWTH_NUM - XP_GROWTH_DEN))

\* a faulty threshold: rounded down
totalXpForLevelFloor(level) ==
  IF level <= 0 THEN 0
  ELSE (XP_BASE * (Pow(XP_GROWTH_NUM, level) - Pow(XP_GROWTH_DEN, level)) * XP_GROWTH_DEN)
         \div (Pow(XP_GROWTH_DEN, level) * (XP_GROWTH_NUM - XP_GROWTH_DEN))

totalXpForLevel(level) ==
  IF level <= 0 THEN 0
  ELSE IF XP_GROWTH_NUM = XP_GROWTH_DEN THEN XP_BASE * level
  ELSE \* ceil(XP_BASE * (growth^level - 1) / (growth - 1)), in exact arithmetic
       CeilDiv(XP_BASE * (Pow(XP_GROWTH_NUM, level) - Pow(XP_GROWTH_DEN, level)) * XP_GROWTH_DEN,
               Pow(XP_GROWTH_DEN, level) * (XP_GROWTH_NUM - XP_GROWTH_DEN))

\* floor(log(xp * (growth - 1) / base + 1) / log(growth)): the largest e with
\* growth^e <= xp * (growth - 1) / base + 1
RECURSIVE LogEstimate(_, _)
LogEstimate(xp, e) ==
  IF Pow(XP_GROWTH_NUM, e + 1) * XP_BASE * XP_GROWTH_DEN
       <= Pow(XP_GROWTH_DEN, e + 1) * (xp * (XP_GROWTH_NUM - XP_GROWTH_DEN) + XP_BASE * XP_GROWTH_DEN)
  THEN LogEstimate(xp, e + 1)
  ELSE e

RECURSIVE LevelUpLoop(_, _)
LevelUpLoop(n, xp) == IF totalXpForLevel(n + 1) <= xp THEN LevelUpLoop(n + 1, xp) ELSE n

RECURSIVE LevelDownLoop(_, _)
LevelDownLoop(n, xp) == IF n > 0 /\ totalXpForLevel(n) > xp THEN LevelDownLoop(n - 1, xp) ELSE n

\* a faulty calcLevel: a level is reached only above its threshold
RECURSIVE LevelUpLoopStrict(_, _)
LevelUpLoopStrict(n, xp) ==
  IF totalXpForLevel(n + 1) < xp THEN LevelUpLoopStrict(n + 1, xp) ELSE n
calcLevelStrict(xp) == LevelUpLoopStrict(0, xp)

\* a faulty calcLevel: only the low byte of xp is read
calcLevelLowByte(xp) == LevelDownLoop(LevelUpLoop(0, xp % 256), xp % 256)

calcLevel(xp) ==
  LET n0 == IF xp > 0 /\ XP_GROWTH_NUM # XP_GROWTH_DEN THEN Max(0, LogEstimate(xp, 0)) ELSE 0
  IN LevelDownLoop(LevelUpLoop(n0, xp), xp)

----------------------------------------------------------------------------
(* Ledger *)

HasNum(e, f) == f \in DOMAIN e

\* the entry ensureXpEntry stores under key and returns
ensureXpEntry(db, key) ==
  LET e0 == IF key \in DOMAIN db THEN db[key] ELSE [xp |-> 0, text |-> 0, voice |-> 0]
      t  == IF HasNum(e0, "text") THEN e0.text ELSE 0
      v  == IF HasNum(e0, "voice") THEN e0.voice ELSE 0
      x  == IF HasNum(e0, "xp") THEN e0.xp ELSE t + v
  IN [xp |-> x, text |-> t, voice |-> v]

\* db with key bound to entry e (DB.xp[key] = e)
PutEntry(db, key, e) == [k \in DOMAIN db \cup {key} |-> IF k = key THEN e ELSE db[k]]

\* Object.entries order after DB.xp[key] = ...: a new key goes last
PutOrder(order, db, key) == IF key \in DOMAIN db THEN order ELSE Append(order, key)

\* a faulty addXP: the counters are not clamped at zero
addXPEntryUnclamped(db, key, amount, source) ==
  LET entry == ensureXpEntry(db, key)
  IN [xp    |-> entry.xp + amount,
      text  |-> IF source = "text" THEN entry.text + amount ELSE entry.text,
      voice |-> IF source = "voice" THEN entry.voice + amount ELSE entry.voice]

\* a faulty addXP: the counter of the source is left as it was
addXPEntryTotalOnly(db, key, amount, source) ==
  LET entry == ensureXpEntry(db, key)
  IN [xp |-> Max(0, entry.xp + amount), text |-> entry.text, voice |-> entry.voice]

\* the entry addXP leaves under the key
addXPEntry(db, key, amount, source) ==
  LET entry == ensureXpEntry(db, key)
      before == entry.xp
  IN [xp    |-> Max(0, before + amount),
      text  |-> IF source = "text" THEN Max(0, entry.text + amount) ELSE entry.text,
      voice |-> IF source = "text" THEN entry.voice
                ELSE IF source = "voice" THEN Max(0, entry.voice + amount)
                ELSE entry.voice]

\* a faulty addXP: a level-up is reported whenever the level did not drop
addXPResultNotLower(db, key, amount, source) ==
  LET before == ensureXpEntry(db, key).xp
      after  == addXPEntry(db, key, amount, source).xp
  IN [before |-> before, after |-> after,
      levelUp |-> calcLevel(after) >= calcLevel(before), newLevel |-> calcLevel(after)]

\* the value addXP returns
addXPResult(db, key, amount, source) ==
  LET before == ensureXpEntry(db, key).xp
      after  == addXPEntry(db, key, amount, source).xp
      lvlBefore == calcLevel(before)
      lvlAfter  == calcLevel(after)
  IN [before |-> before, after |-> after, levelUp |-> lvlAfter > lvlBefore, newLevel |-> lvlAfter]

\* a faulty saveData: the previous timer is not cleared
saveDataNoClear ==
  /\ pendingSaves' = pendingSaves \cup {now + SAVE_DEBOUNCE_MS}
  /\ saveTimer' = now + SAVE_DEBOUNCE_MS

\* a faulty document: the member map is left out
DocumentXpOnly == [members |-> <<>>, xp |-> DBxp]

\* JSON.stringify(DB): what the timer of saveData writes
Document == [members |-> DBmembers, xp |-> DBxp]

\* saveData(): the pending timer is cleared and a new one is set 500 ms ahead
saveData ==
  /\ pendingSaves' = (pendingSaves \ {saveTimer}) \cup {now + SAVE_DEBOUNCE_MS}
  /\ saveTimer' = now + SAVE_DEBOUNCE_MS

\* the ledger (DB.xp with its key order) after addXP(guildId, userId, amount, source)
addXPLedger(L, key, amount, source) ==
  [db |-> PutEntry(L.db, key, addXPEntry(L.db, key, amount, source)),
   order |-> PutOrder(L.order, L.db, key)]

\* what the most recent addXP call was given and returned
addXPCall(db, key, amount, source) ==
  [key |-> key, amount |-> amount, source |-> source, out |-> addXPResult(db, key, amount, source)]

\* the state change of addXP(guildId, userId, amount, source)
addXP(guildId, userId, amount, source) ==
  LET key == mkey(guildId, userId)
      L == addXPLedger([db |-> DBxp, order |-> xpOrder], key, amount, source)
  IN /\ DBxp' = L.db
     /\ xpOrder' = L.order
     /\ saveData

----------------------------------------------------------------------------
(* Channels and outbound messages *)

\* the text channels the deployment provides in every guild (looked up by name)
GuildChannels(g) == {"levelup", "log", "arrival"}

NoChannel == "none"
getLevelUpChannel(g) == IF "levelup" \in GuildChannels(g) THEN "levelup" ELSE NoChannel
getLogChannel(g) == IF "log" \in GuildChannels(g) THEN "log" ELSE NoChannel

\* the messages a handler sent, after one more channel.send(payload)
Send(s, ch, payload) == Append(s, [ch |-> ch, msg |-> payload])

\* safeSendLevelUp(guild, payload, fallbackChannel): #level-up, else the fallback, else the logs
safeSendLevelUp(s, g, payload, fallbackChannel) ==
  LET ch == IF getLevelUpChannel(g) # NoChannel THEN getLevelUpChannel(g)
            ELSE IF fallbackChannel # NoChannel THEN fallbackChannel
            ELSE getLogChannel(g)
  IN IF ch # NoChannel THEN Send(s, ch, payload) ELSE s

----------------------------------------------------------------------------
(* Nickname badges *)

NEWBIE_ROLE_NAME == "newbie"
NPC_ROLE_NAME == "npc"
TEXT_CHAMP_ROLE_NAME == "text"
VOICE_CHAMP_ROLE_NAME == "voice"

NEWBIE_BADGE == <<"D83D", "DC23">>
NPC_BADGE    == <<"D83E", "DD16">>
TEXT_CROWN   == <<"2328">>
VOICE_CROWN  == <<"D83C", "DF99">>
\* the alternation of both regular expressions of stripKnownBadges
KnownBadges == {NEWBIE_BADGE, NPC_BADGE, <<"D83E", "DD47">>, <<"D83E", "DD48">>,
                <<"D83E", "DD49">>, TEXT_CROWN, VOICE_CROWN}

EndsWith(s, p) == Len(s) >= Len(p) /\ SubSeq(s, Len(s) - Len(p) + 1, Len(s)) = p

\* String.prototype.trim
RECURSIVE TrimStart(_)
TrimStart(s) == IF Len(s) > 0 /\ s[1] = " " THEN TrimStart(Tail(s)) ELSE s
RECURSIVE TrimEnd(_)
TrimEnd(s) == IF Len(s) > 0 /\ s[Len(s)] = " " THEN TrimEnd(SubSeq(s, 1, Len(s) - 1)) ELSE s
Trim(s) == TrimEnd(TrimStart(s))

\* a faulty pattern: only one leading badge is removed
StripLeadingOnce(n) ==
  IF \E b \in KnownBadges : StartsWith(n, b \o <<" ">>)
  THEN LET b == CHOOSE c \in KnownBadges : StartsWith(n, c \o <<" ">>)
       IN SubSeq(n, Len(b) + 2, Len(n))
  ELSE n

\* n.replace(/^((badge) )+/u, ''): the leading run of badges, each followed by a space
RECURSIVE StripLeading(_)
StripLeading(n) ==
  IF \E b \in KnownBadges : StartsWith(n, b \o <<" ">>)
  THEN LET b == CHOOSE c \in KnownBadges : StartsWith(n, c \o <<" ">>)
       IN StripLeading(SubSeq(n, Len(b) + 2, Len(n)))
  ELSE n

\* n.replace(/( (badge))+$/u, ''): the trailing run of badges, each preceded by a space
RECURSIVE StripTrailing(_)
StripTrailing(n) ==
  IF \E b \in KnownBadges : EndsWith(n, <<" ">> \o b)
  THEN LET b == CHOOSE c \in KnownBadges : EndsWith(n, <<" ">> \o c)
       IN StripTrailing(SubSeq(n, 1, Len(n) - Len(b) - 1))
  ELSE n

stripKnownBadges(name) ==
  IF name = <<>> THEN name
  ELSE Trim(StripTrailing(StripLeading(Trim(name))))

\* a faulty choice of the status badge: the graduated one wins over the onboarding one
getRoleBadgeNpcFirst(roleSet) ==
  IF NPC_ROLE_NAME \in roleSet THEN NPC_BADGE
  ELSE IF NEWBIE_ROLE_NAME \in roleSet THEN NEWBIE_BADGE
  ELSE Null

getRoleBadge(roleSet) ==
  IF NEWBIE_ROLE_NAME \in roleSet THEN NEWBIE_BADGE
  ELSE IF NPC_ROLE_NAME \in roleSet THEN NPC_BADGE
  ELSE Null

\* icons.join(' ') + ' ', or '' when there is no icon
RECURSIVE JoinPrefix(_)
JoinPrefix(icons) == IF icons = <<>> THEN <<>> ELSE Head(icons) \o <<" ">> \o JoinPrefix(Tail(icons))

\* a faulty cut: the last 32 places are kept
finalNickKeepsTail(current, roleSet) ==
  LET base == stripKnownBadges(current)
      roleBadge == getRoleBadge(roleSet)
      icons == (IF roleBadge # Null THEN <<roleBadge>> ELSE <<>>)
               \o (IF TEXT_CHAMP_ROLE_NAME \in roleSet THEN <<TEXT_CROWN>> ELSE <<>>)
               \o (IF VOICE_CHAMP_ROLE_NAME \in roleSet THEN <<VOICE_CROWN>> ELSE <<>>)
      full == JoinPrefix(icons) \o base
  IN SubSeq(full, Max(1, Len(full) - NICK_MAX + 1), Len(full))

\* finalNick of setNickRoleBadge, for a member showing `current` and holding roleSet
finalNick(current, roleSet) ==
  LET base == stripKnownBadges(current)
      roleBadge == getRoleBadge(roleSet)
      icons == (IF roleBadge # Null THEN <<roleBadge>> ELSE <<>>)
               \o (IF TEXT_CHAMP_ROLE_NAME \in roleSet THEN <<TEXT_CROWN>> ELSE <<>>)
               \o (IF VOICE_CHAMP_ROLE_NAME \in roleSet THEN <<VOICE_CROWN>> ELSE <<>>)
      full == JoinPrefix(icons) \o base
  IN SubSeq(full, 1, Min(Len(full), NICK_MAX))

\* the display name of a member after setNickRoleBadge, given the roles the member
\* holds then; ok: whether member.setNickname succeeds
setNickRoleBadge(current, roleSet, ok) ==
  LET f == finalNick(current, roleSet)
  IN IF f # current /\ ok THEN f ELSE current

\* a faulty test: the rename is issued every time
IssuesRenameAlways(current, roleSet) == TRUE

\* whether setNickRoleBadge issues member.setNickname
IssuesRename(current, roleSet) == finalNick(current, roleSet) # current

\* the prefix of setNickRoleBadge for a member holding roleSet
prefixOf(roleSet) ==
  LET roleBadge == getRoleBadge(roleSet)
  IN JoinPrefix((IF roleBadge # Null THEN <<roleBadge>> ELSE <<>>)
                \o (IF TEXT_CHAMP_ROLE_NAME \in roleSet THEN <<TEXT_CROWN>> ELSE <<>>)
                \o (IF VOICE_CHAMP_ROLE_NAME \in roleSet THEN <<VOICE_CROWN>> ELSE <<>>))

----------------------------------------------------------------------------
(* What a handler puts out *)

NoReply == [ephemeral |-> FALSE, kind |-> "none", data |-> <<>>]
Reply(ephemeral, kind, data) == [ephemeral |-> ephemeral, kind |-> kind, data |-> data]

\* op: the handler; key: the ledger key it was about; calls: its addXP calls in order;
\* sends: the channel messages it sent; reply: its interaction reply; failed (history):
\* a platform call of the handler failed and was swallowed
Output(op, key, calls, sends, reply) ==
  [op |-> op, key |-> key, calls |-> calls, sends |-> sends, reply |-> reply,
   failed |-> FALSE, ret |-> Null, threw |-> FALSE]

\* the output of a step that applied a function: ret is what was passed and returned
Returning(o, v) == [o EXCEPT !.ret = v]

\* the output of a handler of which a platform call failed, if f
Failing(o, f) == [o EXCEPT !.failed = f]

\* the output of a handler that ended with an error thrown
Throwing(o) == [o EXCEPT !.threw = TRUE]

LevelUpMsg(kind, userId, level) == [kind |-> kind, user |-> userId, level |-> level]

----------------------------------------------------------------------------
(* Reconciliation passes: the record of a pass *)

Procs == {"sweep", "cmd"}
Dims == {"text", "voice"}

\* pc: where the pass stands; i: the member the assign loop is at;
\* prev*/new*: the ids updateCrownRoles computed after ensureCrownRoles.
\* History of the pass: held: the (dimension, member) pairs holding a marker when the
\* pass read role state; revoked, granted: the roles.remove / roles.add calls issued;
\* recomposed: the setNickRoleBadge calls; renamed: the setNickname calls issued;
\* anns: the announcements sent; clean: no platform call of the pass has failed;
\* stable: neither the ledger nor the roles were changed from outside since the pass
\* read them; repeat: the pass started after a clean, stable pass of the same guild
\* and nothing was changed from outside since; retry: the pass started after a pass
\* of the same guild of which a platform call failed, and nothing was changed from
\* outside since.
IdlePass ==
  [pc |-> "idle", g |-> Null, i |-> 0,
   prevTextId |-> Null, prevVoiceId |-> Null, newTextId |-> Null, newVoiceId |-> Null,
   held |-> {}, revoked |-> {}, granted |-> {}, recomposed |-> {}, renamed |-> {},
   anns |-> <<>>, clean |-> TRUE, stable |-> FALSE, repeat |-> FALSE, retry |-> FALSE,
   affected |-> 0]

\* the pass records after the ledger or the roles were changed by anything but the pass
Disturbed(ps) ==
  [p \in DOMAIN ps |-> [ps[p] EXCEPT !.stable = FALSE, !.repeat = FALSE, !.retry = FALSE]]

----------------------------------------------------------------------------
(* Text activity: client.on('messageCreate') *)

\* a faulty cooldown check: a message exactly one window after the last is discarded too
cooldownDiscardsInclusive(t, lastT) == t - lastT <= MESSAGE_COOLDOWN_MS

\* Date.now() - last < MESSAGE_COOLDOWN_MS
cooldownDiscards(t, lastT) == t - lastT < MESSAGE_COOLDOWN_MS

\* messageCooldown.get(cdKey) || 0
cooldownLast(mc, cdKey) == IF cdKey \in DOMAIN mc THEN mc[cdKey] ELSE 0

\* map.set(k, v)
MapSet(m, k, v) == [x \in DOMAIN m \cup {k} |-> IF x = k THEN v ELSE m[x]]

\* a faulty handler: the timestamp is recorded before the cooldown check returns
cooldownAfterRefreshing(mc, cdKey, t, discard) == MapSet(mc, cdKey, t)

\* the messageCooldown map after the handler: a discarded message returns before
\* messageCooldown.set(cdKey, Date.now())
cooldownAfter(mc, cdKey, t, discard) == IF discard THEN mc ELSE MapSet(mc, cdKey, t)

\* a message by user u arrives in a channel of guild g; isBot: message.author.bot
MessageCreate(g, u, isBot) ==
  LET key == mkey(g, u)
      cdKey == cdKeyOf(key)
      call == addXPCall(DBxp, key, MESSAGE_XP, "text")
      discard == cooldownDiscards(now, cooldownLast(messageCooldown, cdKey))
  IN IF isBot
     THEN /\ last' = Output("botMessage", key, <<>>, <<>>, NoReply)
          /\ UNCHANGED <<progVars, lastAward, lastNotified, pass>>
     ELSE /\ messageCooldown' = cooldownAfter(messageCooldown, cdKey, now, discard)
          /\ IF discard
             THEN /\ last' = Output("messageCreate", key, <<>>, <<>>, NoReply)
                  /\ UNCHANGED <<ledgerVars, lastAward, pass>>
             ELSE /\ lastAward' = MapSet(lastAward, cdKey, now)
                  /\ addXP(g, u, MESSAGE_XP, "text")
                  /\ last' = Output("messageCreate", key, <<call>>,
                                    IF call.out.levelUp
                                    THEN safeSendLevelUp(<<>>, g, LevelUpMsg("levelup", u, call.out.newLevel), "here")
                                    ELSE <<>>,
                                    NoReply)
                  /\ pass' = Disturbed(pass)
                  /\ UNCHANGED <<disk, DBfields, DBmembers>>
          /\ UNCHANGED <<now, voiceActive, liveVoice, platformVars, lastNotified, timerVars>>

\* time passes
Advance(d) ==
  /\ now + d - StartTime <= MaxElapsed
  /\ now' = now + d
  /\ last' = Output("advance", Null, <<>>, <<>>, NoReply)
  /\ UNCHANGED <<ledgerVars, activityVars, platformVars, pass>>

\* the debounce timer of saveData fires: DB is written to DATA_FILE
Flush ==
  /\ \E t \in pendingSaves :
       /\ now >= t
       /\ pendingSaves' = pendingSaves \ {t}
       /\ saveTimer' = IF saveTimer = t THEN NoTimer ELSE saveTimer
  /\ disk' = Document
  /\ last' = Output("flush", Null, <<>>, <<>>, NoReply)
  /\ UNCHANGED <<now, DBxp, xpOrder, DBmembers, DBfields, activityVars, platformVars, pass>>

----------------------------------------------------------------------------
(* Voice activity: client.on('voiceStateUpdate') and the ticker *)

Disconnected == [channel |-> NoChannel, selfMute |-> FALSE, selfDeaf |-> FALSE]
VoiceStates == {Disconnected} \cup
               {[channel |-> "vc", selfMute |-> mu, selfDeaf |-> de] : mu, de \in BOOLEAN}

\* voiceActive is a Map in insertion order: a sequence of [gid, set], the set being a
\* Set in insertion order: a sequence of user ids
RECURSIVE VAIndex(_, _, _)
VAIndex(va, gid, i) ==
  IF i > Len(va) THEN 0 ELSE IF va[i].gid = gid THEN i ELSE VAIndex(va, gid, i + 1)

SeqHas(q, x) == \E i \in 1..Len(q) : q[i] = x
\* set.add(x)
SetAdd(q, x) == IF SeqHas(q, x) THEN q ELSE Append(q, x)
\* set.delete(x)
SetDelete(q, x) == SelectSeq(q, LAMBDA y : y # x)

\* whether the member is in the presence set of its guild
Present(va, gid, uid) ==
  LET i == VAIndex(va, gid, 1) IN i # 0 /\ SeqHas(va[i].set, uid)

\* a faulty handler: a notification without a channel does not remove the member
voiceStateUpdateAddOnly(va, gid, uid, channelId) ==
  LET va1 == IF VAIndex(va, gid, 1) = 0 THEN Append(va, [gid |-> gid, set |-> <<>>]) ELSE va
      i == VAIndex(va1, gid, 1)
  IN [va1 EXCEPT ![i].set = SetAdd(@, uid)]

\* voiceActive after the handler ran for a notification with newS.channelId = channelId
voiceStateUpdate(va, gid, uid, channelId) ==
  LET va1 == IF VAIndex(va, gid, 1) = 0 THEN Append(va, [gid |-> gid, set |-> <<>>]) ELSE va
      i == VAIndex(va1, gid, 1)
  IN IF channelId = NoChannel
     THEN [va1 EXCEPT ![i].set = SetDelete(@, uid)]
     ELSE [va1 EXCEPT ![i].set = SetAdd(@, uid)]

\* the voice state of a member changes and the notification is delivered
VoiceStateUpdate(g, u, newS) ==
  /\ liveVoice' = [liveVoice EXCEPT ![<<g, u>>] = newS]
  /\ voiceActive' = voiceStateUpdate(voiceActive, g, u, newS.channel)
  /\ lastNotified' = [lastNotified EXCEPT ![<<g, u>>] = newS.channel]
  /\ last' = Output("voiceStateUpdate", mkey(g, u), <<>>, <<>>, NoReply)
  /\ UNCHANGED <<now, ledgerVars, messageCooldown, lastAward, platformVars, pass, timerVars>>

\* the voice state of a member changes while the gateway connection is down: the
\* platform delivers no notification for it
VoiceStateMissed(g, u, newS) ==
  /\ liveVoice[<<g, u>>] # newS
  /\ liveVoice' = [liveVoice EXCEPT ![<<g, u>>] = newS]
  /\ last' = Output("gateway", mkey(g, u), <<>>, <<>>, NoReply)
  /\ UNCHANGED <<now, ledgerVars, messageCooldown, voiceActive, lastAward, lastNotified,
                 platformVars, pass, timerVars>>

\* a faulty filter: a self-deafened member is not skipped
tickSkipsMuted(vs) == vs.channel = NoChannel \/ vs.selfMute

\* !vs?.channel || vs.selfMute || vs.selfDeaf
tickSkips(vs) == vs.channel = NoChannel \/ vs.selfMute \/ vs.selfDeaf

\* the (gid, uid) pairs the ticker visits, in the order of its two loops
RECURSIVE TickPairs(_)
TickPairs(va) ==
  IF va = <<>> THEN <<>>
  ELSE [j \in 1..Len(Head(va).set) |-> <<Head(va).gid, Head(va).set[j]>>] \o TickPairs(Tail(va))

\* the ticker's loop from pair i on; T: the ledger, the calls made and the messages sent so far
RECURSIVE TickLoop(_, _, _)
TickLoop(pairs, i, T) ==
  IF i > Len(pairs) THEN T
  ELSE LET gid == pairs[i][1]
           uid == pairs[i][2]
           key == mkey(gid, uid)
           call == addXPCall(T.L.db, key, VOICE_XP_PER_MIN, "voice")
       IN IF tickSkips(liveVoice[<<gid, uid>>]) THEN TickLoop(pairs, i + 1, T)
          ELSE TickLoop(pairs, i + 1,
                 [L |-> addXPLedger(T.L, key, VOICE_XP_PER_MIN, "voice"),
                  calls |-> Append(T.calls, call),
                  sends |-> IF call.out.levelUp
                            THEN safeSendLevelUp(T.sends, gid, LevelUpMsg("voicelevelup", uid, call.out.newLevel), NoChannel)
                            ELSE T.sends])

\* one firing of the interval of startVoiceTicker
VoiceTick ==
  LET T == TickLoop(TickPairs(voiceActive), 1,
                    [L |-> [db |-> DBxp, order |-> xpOrder], calls |-> <<>>, sends |-> <<>>])
  IN /\ DBxp' = T.L.db
     /\ xpOrder' = T.L.order
     /\ IF T.calls # <<>> THEN saveData ELSE UNCHANGED <<saveTimer, pendingSaves>>
     /\ last' = Output("voiceTick", Null, T.calls, T.sends, NoReply)
     /\ pass' = IF T.calls # <<>> THEN Disturbed(pass) ELSE pass
     /\ UNCHANGED <<now, disk, DBfields, DBmembers, activityVars, platformVars>>

----------------------------------------------------------------------------
(* Slash commands on the ledger: client.on('interactionCreate') *)

xpForNext(level) == totalXpForLevel(level + 1)

\* /rank for user u
Rank(g, u) ==
  LET key == mkey(g, u)
      entry == ensureXpEntry(DBxp, key)
      lvl == calcLevel(entry.xp)
      next == xpForNext(lvl)
  IN /\ DBxp' = PutEntry(DBxp, key, entry)
     /\ xpOrder' = PutOrder(xpOrder, DBxp, key)
     /\ last' = Output("rank", key, <<>>, <<>>,
                       Reply(FALSE, "rank", <<lvl, entry.xp, next, Max(0, next - entry.xp),
                                              entry.text, entry.voice>>))
     /\ pass' = Disturbed(pass)
     /\ UNCHANGED <<now, saveTimer, pendingSaves, disk, DBfields, DBmembers, activityVars, platformVars>>

\* /givexp user amount [source]; sourceOpt = "" when the option is left out;
\* allowed: the caller has Manage Server
GiveXP(g, u, amount, sourceOpt, allowed) ==
  LET key == mkey(g, u)
      source == IF sourceOpt = "" THEN "text" ELSE sourceOpt
      call == addXPCall(DBxp, key, amount, source)
  IN IF ~allowed
     THEN /\ last' = Output("givexp", key, <<>>, <<>>, Reply(TRUE, "denied", <<>>))
          /\ UNCHANGED <<progVars, lastAward, lastNotified, pass>>
     ELSE /\ addXP(g, u, amount, source)
          /\ last' = Output("givexp", key, <<call>>,
                            safeSendLevelUp(<<>>, g,
                              LevelUpMsg("granted", u, IF call.out.levelUp THEN call.out.newLevel ELSE 0),
                              NoChannel),
                            Reply(TRUE, "done", <<>>))
          /\ pass' = Disturbed(pass)
          /\ UNCHANGED <<now, disk, DBfields, DBmembers, activityVars, platformVars>>

\* the crown roles of the guild after ensureCrownRoles; okText, okVoice: whether
\* guild.roles.create succeeds for a role that is missing
ensureCrownRoles(have, okText, okVoice) ==
  have \cup (IF TEXT_CHAMP_ROLE_NAME \notin have /\ okText THEN {TEXT_CHAMP_ROLE_NAME} ELSE {})
       \cup (IF VOICE_CHAMP_ROLE_NAME \notin have /\ okVoice THEN {VOICE_CHAMP_ROLE_NAME} ELSE {})

\* a faulty loop: the key is tested against the guild id without the colon
resetEntriesNoColon(db, gid) ==
  [k \in DOMAIN db |-> IF StartsWith(k, gid)
                       THEN [xp |-> 0, text |-> 0, voice |-> 0]
                       ELSE db[k]]

\* DB.xp after the loop of /resetxp over Object.entries(DB.xp)
resetEntries(db, gid) ==
  [k \in DOMAIN db |-> IF StartsWith(k, gid \o <<":">>)
                       THEN [xp |-> 0, text |-> 0, voice |-> 0]
                       ELSE db[k]]

\* the number of entries /resetxp reports as zeroed
resetAffected(db, gid) == Cardinality({k \in DOMAIN db : StartsWith(k, gid \o <<":">>)})

\* the roles of a member after the removals of /resetxp; have: the crown roles that
\* ensureCrownRoles returned; okRemove: whether roles.remove succeeds
resetMemberRoles(rs, have, okRemove) ==
  IF okRemove THEN rs \ ({TEXT_CHAMP_ROLE_NAME, VOICE_CHAMP_ROLE_NAME} \cap have) ELSE rs

\* /resetxp confirm, run with no other handler in between; allowed: the caller has
\* Manage Server
ResetXP(g, allowed, confirm, okText, okVoice, okRemove, okRename) ==
  IF ~allowed \/ ~confirm
  THEN /\ last' = Returning(
                      Output("resetxp", Null, <<>>, <<>>,
                             Reply(TRUE, IF ~allowed THEN "denied" ELSE "aborted", <<>>)),
                      [allowed |-> allowed, confirm |-> confirm])
       /\ UNCHANGED <<progVars, lastAward, lastNotified, pass>>
  ELSE LET have == ensureCrownRoles(guildRoles[g], okText, okVoice)
           after == [m \in Members |->
                       IF m[1] = g THEN resetMemberRoles(roles[m], have, okRemove) ELSE roles[m]]
       IN /\ DBxp' = resetEntries(DBxp, g)
          /\ saveData
          /\ guildRoles' = [guildRoles EXCEPT ![g] = have]
          /\ roles' = after
          /\ nick' = [m \in Members |->
                        IF m[1] = g THEN setNickRoleBadge(nick[m], after[m], okRename) ELSE nick[m]]
          /\ last' = Failing(
                        Output("resetxp", Null, <<>>,
                               safeSendLevelUp(<<>>, g, LevelUpMsg("reset", Null, 0), NoChannel),
                               Reply(TRUE, "reset", <<resetAffected(DBxp, g)>>)),
                        \/ ~({TEXT_CHAMP_ROLE_NAME, VOICE_CHAMP_ROLE_NAME} \subseteq have)
                        \/ \E m \in Members :
                             /\ m[1] = g
                             /\ \/ ~okRemove /\ roles[m] \cap have
                                                  \cap {TEXT_CHAMP_ROLE_NAME, VOICE_CHAMP_ROLE_NAME} # {}
                                \/ ~okRename /\ IssuesRename(nick[m], after[m]))
          /\ pass' = Disturbed(pass)
          /\ UNCHANGED <<now, xpOrder, disk, DBfields, DBmembers, activityVars>>

----------------------------------------------------------------------------
(* Onboarding: client.on('guildMemberAdd') and the promotion sweep. The model
   does not tell a nickname from a user name: originalNick is the display name. *)

NEWBIE_DURATION_MS == 14 * 24 * 60 * 60 * 1000
\* newbieSince: null
NullTime == -1

\* a role of the guild after ensureRole(guild, name); ok: guild.roles.create succeeds
ensureRole(have, name, ok) == IF name \notin have /\ ~ok THEN have ELSE have \cup {name}

\* a member joins guild g
GuildMemberAdd(g, u, okCreate, okAdd, okRename) ==
  LET m == <<g, u>>
      key == mkey(g, u)
      have == ensureRole(ensureRole(guildRoles[g], NEWBIE_ROLE_NAME, okCreate), NPC_ROLE_NAME, okCreate)
      after == IF NEWBIE_ROLE_NAME \in have /\ okAdd THEN roles[m] \cup {NEWBIE_ROLE_NAME} ELSE roles[m]
  IN /\ guildRoles' = [guildRoles EXCEPT ![g] = have]
     /\ roles' = [roles EXCEPT ![m] = after]
     /\ DBmembers' = MapSet(DBmembers, key, [joinedAt |-> now, newbieSince |-> now, originalNick |-> nick[m]])
     /\ saveData
     /\ nick' = [nick EXCEPT ![m] = setNickRoleBadge(@, after, okRename)]
     /\ last' = Failing(
                   Output("guildMemberAdd", key, <<>>,
                          Send(<<>>, "arrival", [kind |-> "welcome", user |-> u, level |-> 0]), NoReply),
                   \/ ~({NEWBIE_ROLE_NAME, NPC_ROLE_NAME} \subseteq have)
                   \/ NEWBIE_ROLE_NAME \in have /\ ~okAdd
                   \/ ~okRename /\ IssuesRename(nick[m], after))
     /\ pass' = Disturbed(pass)
     /\ UNCHANGED <<now, DBxp, xpOrder, disk, DBfields, activityVars>>

\* a faulty due-check: one period and a millisecond more is asked for
promotionDueLate(meta, t) == meta.newbieSince # NullTime /\ t - meta.newbieSince > NEWBIE_DURATION_MS

\* !(!meta.newbieSince) && now - meta.newbieSince >= NEWBIE_DURATION_MS
promotionDue(meta, t) == meta.newbieSince # NullTime /\ t - meta.newbieSince >= NEWBIE_DURATION_MS

\* the members of guild g that promoteIfDue promotes at time t
promoted(g, t) ==
  IF ~({NEWBIE_ROLE_NAME, NPC_ROLE_NAME} \subseteq guildRoles[g]) THEN {}
  ELSE {u \in Users : /\ mkey(g, u) \in DOMAIN DBmembers
                      /\ NEWBIE_ROLE_NAME \in roles[<<g, u>>]
                      /\ promotionDue(DBmembers[mkey(g, u)], t)}

\* a faulty sweep: a member whose role swap failed is not marked as processed
markedWhenSwapped(g, t, failRemove, failAdd) == promoted(g, t) \ (failRemove \cup failAdd)

\* the members whose newbieSince the sweep sets to null
marked(g, t, failRemove, failAdd) == promoted(g, t)

\* promoteIfDue(guild), run with no other handler in between; failRemove, failAdd:
\* the members for whom roles.remove, roles.add fail; okRename: setNickname succeeds
PromoteIfDue(g, failRemove, failAdd, okRename) ==
  LET P == promoted(g, now)
      after == [m \in Members |->
                  IF m[1] = g /\ m[2] \in P
                  THEN ((IF m[2] \in failRemove THEN roles[m] ELSE roles[m] \ {NEWBIE_ROLE_NAME})
                        \cup (IF m[2] \in failAdd THEN {} ELSE {NPC_ROLE_NAME}))
                  ELSE roles[m]]
      M == marked(g, now, failRemove, failAdd)
  IN /\ roles' = after
     /\ nick' = [m \in Members |->
                   IF m[1] = g /\ m[2] \in P THEN setNickRoleBadge(nick[m], after[m], okRename) ELSE nick[m]]
     /\ DBmembers' = [k \in DOMAIN DBmembers |->
                        IF \E u \in M : k = mkey(g, u)
                        THEN [DBmembers[k] EXCEPT !.newbieSince = NullTime]
                        ELSE DBmembers[k]]
     /\ IF M # {} THEN saveData ELSE UNCHANGED <<saveTimer, pendingSaves>>
     /\ last' = Failing(
                   Returning(
                     Output("promoteIfDue", g, <<>>,
                            [i \in 1..Len(SelectSeq(MemberOrder, LAMBDA u : u \in P)) |->
                               [ch |-> getLevelUpChannel(g),
                                msg |-> [kind |-> "promotion",
                                         user |-> SelectSeq(MemberOrder, LAMBDA u : u \in P)[i],
                                         level |-> 0]]],
                            NoReply),
                     [at |-> now, promoted |-> P, members |-> DBmembers, roles |-> roles,
                      guildRoles |-> guildRoles[g], failRemove |-> failRemove, failAdd |-> failAdd]),
                   \E u \in P : \/ u \in failRemove
                                 \/ u \in failAdd
                                 \/ (~okRename /\ IssuesRename(nick[<<g, u>>], after[<<g, u>>])))
     /\ pass' = IF P # {} THEN Disturbed(pass) ELSE pass
     /\ UNCHANGED <<now, DBxp, xpOrder, disk, DBfields, activityVars, guildRoles>>

\* time passes, up to limit milliseconds of run time
AdvanceWithin(d, limit) ==
  /\ now + d - StartTime <= limit
  /\ now' = now + d
  /\ last' = Output("advance", Null, <<>>, <<>>, NoReply)
  /\ UNCHANGED <<ledgerVars, activityVars, platformVars, pass>>

----------------------------------------------------------------------------
(* /temprole. A duration is the string of its characters. Of the formats the ms
   package reads, the model has the whole numbers followed by nothing or by one of
   the short units. A timer key is the triple of the ids that the code joins with
   colons. *)

DigitChars == <<"0", "1", "2", "3", "4", "5", "6", "7", "8", "9">>
IsDigit(c) == \E d \in 1..10 : DigitChars[d] = c
DigitValue(c) == (CHOOSE d \in 1..10 : DigitChars[d] = c) - 1

\* the number of digits at the start of s
RECURSIVE LeadingDigits(_)
LeadingDigits(s) ==
  IF s # <<>> /\ IsDigit(Head(s)) THEN 1 + LeadingDigits(Tail(s)) ELSE 0

\* the value of a string of digits
RECURSIVE DecimalValue(_)
DecimalValue(s) ==
  IF s = <<>> THEN 0 ELSE 10 * DecimalValue(SubSeq(s, 1, Len(s) - 1)) + DigitValue(s[Len(s)])

\* the milliseconds of a unit of ms, 0 for what is no unit
UnitMs(unit) ==
  CASE unit = <<>> -> 1
    [] unit = <<"m", "s">> -> 1
    [] unit = <<"s">> -> 1000
    [] unit = <<"m">> -> 60 * 1000
    [] unit = <<"h">> -> 60 * 60 * 1000
    [] unit = <<"d">> -> 24 * 60 * 60 * 1000
    [] OTHER -> 0

\* ms(durationStr): the milliseconds, or undefined (ok = FALSE)
ms(str) ==
  LET n == LeadingDigits(str)
      unit == SubSeq(str, n + 1, Len(str))
  IN IF n = 0 \/ UnitMs(unit) = 0
     THEN [ok |-> FALSE, value |-> 0]
     ELSE [ok |-> TRUE, value |-> DecimalValue(SubSeq(str, 1, n)) * UnitMs(unit)]

\* a faulty check of the duration: only missing durations are refused
tempRoleInvalidNoMinimum(d) == ~d.ok \/ d.value = 0

\* !durationMs || durationMs < 10000
tempRoleInvalid(d) == ~d.ok \/ d.value = 0 \/ d.value < 10000

\* clearTimeout(id): a timeout that has not fired is dropped
clearTimeout(ts, id) == {t \in ts : ~(t.id = id /\ ~t.fired)}

\* the id setTimeout gives the new timeout
NewTimeoutId(ts) == CHOOSE i \in 1..(Cardinality(ts) + 1) : \A t \in ts : t.id # i

\* /temprole user role duration; allowed: the caller has Manage Roles; okFetch:
\* the member is found; above: the highest role of the bot is above the role;
\* okAdd: roles.add succeeds
TempRole(g, u, role, durationStr, allowed, okFetch, above, okAdd) ==
  LET d == ms(durationStr)
      key == <<g, u, role>>
      args == [user |-> u, role |-> role, duration |-> durationStr, allowed |-> allowed]
      refusal == IF tempRoleInvalid(d) THEN "invalid"
                 ELSE IF ~allowed THEN "denied"
                 ELSE IF ~okFetch THEN "nomember"
                 ELSE IF ~above THEN "hierarchy"
                 ELSE "none"
      cleared == IF key \in DOMAIN tempRoleTimers
                 THEN clearTimeout(timeouts, tempRoleTimers[key]) ELSE timeouts
      id == NewTimeoutId(cleared)
  IN IF refusal # "none"
     THEN /\ last' = Returning(Output("temprole", Null, <<>>, <<>>, Reply(TRUE, refusal, <<>>)),
                               args)
          /\ UNCHANGED <<progVars, lastAward, lastNotified, pass>>
     ELSE /\ roles' = [roles EXCEPT ![<<g, u>>] = IF okAdd THEN @ \cup {role} ELSE @]
          /\ timeouts' = cleared \cup {[id |-> id, key |-> key, due |-> now + d.value,
                                         fired |-> FALSE]}
          /\ tempRoleTimers' = MapSet(tempRoleTimers, key, id)
          /\ last' = Returning(Failing(Output("temprole", Null, <<>>, <<>>,
                                               Reply(TRUE, "temprole", durationStr)),
                                        ~okAdd),
                               args)
          /\ pass' = Disturbed(pass)
          /\ UNCHANGED <<now, ledgerVars, messageCooldown, voiceActive, liveVoice, lastAward,
                         lastNotified, nick, guildRoles>>

\* a timeout of /temprole is due: its callback calls roles.remove
TempRoleFire(id, okRemove) ==
  \E t \in timeouts :
    /\ t.id = id /\ ~t.fired
    /\ now >= t.due
    /\ roles' = [roles EXCEPT ![<<t.key[1], t.key[2]>>] = IF okRemove THEN @ \ {t.key[3]} ELSE @]
    /\ timeouts' = (timeouts \ {t}) \cup {[t EXCEPT !.fired = TRUE]}
    /\ last' = Failing(Output("temproleExpiry", Null, <<>>, <<>>, NoReply), ~okRemove)
    /\ pass' = Disturbed(pass)
    /\ UNCHANGED <<now, ledgerVars, messageCooldown, voiceActive, liveVoice, lastAward,
                   lastNotified, nick, guildRoles, tempRoleTimers>>

\* roles.remove has returned: the callback deletes the key from tempRoleTimers
TempRoleDelete(id) ==
  \E t \in timeouts :
    /\ t.id = id /\ t.fired
    /\ tempRoleTimers' = [k \in DOMAIN tempRoleTimers \ {t.key} |-> tempRoleTimers[k]]
    /\ timeouts' = timeouts \ {t}
    /\ last' = Output("temproleExpiry", Null, <<>>, <<>>, NoReply)
    /\ UNCHANGED <<now, ledgerVars, messageCooldown, voiceActive, liveVoice, lastAward,
                   lastNotified, platformVars, pass>>

----------------------------------------------------------------------------
(* Crown roles: topBy and updateCrownRoles                                  *)
(*                                                                         *)
(* The platform is taken at its word: roles.add and roles.remove, when     *)
(* they succeed, change the roles of the member at once, setNickname       *)
(* stores the string it is given, and the member cache answers with the    *)
(* current roles. A call that fails changes nothing and is swallowed by    *)
(* the catch of the code. updateCrownRoles is cut at its awaits: one step  *)
(* per round of the member loop of assign, one for the winner, one for     *)
(* the announcements.                                                      *)

CrownRole(dim) == IF dim = "text" THEN TEXT_CHAMP_ROLE_NAME ELSE VOICE_CHAMP_ROLE_NAME

\* the members of guild g holding the role
Holders(g, role) == {u \in Users : role \in roles[<<g, u>>]}

\* role.members.first()?.id || null
RECURSIVE FirstHolderFrom(_, _, _)
FirstHolderFrom(g, role, i) ==
  IF i > Len(MemberOrder) THEN Null
  ELSE IF role \in roles[<<g, MemberOrder[i]>>] THEN MemberOrder[i]
  ELSE FirstHolderFrom(g, role, i + 1)
FirstHolder(g, role) == FirstHolderFrom(g, role, 1)

NoTop == [found |-> FALSE, userId |-> Null, xp |-> 0]

\* a faulty topBy: among entries tied at the maximum, the last one wins
RECURSIVE TopScanLast(_, _, _, _, _, _)
TopScanLast(db, order, guildId, key, i, best) ==
  IF i > Len(order) THEN best
  ELSE LET k == order[i]
           cand == [found |-> TRUE, userId |-> SplitSecond(k),
                    xp |-> IF key \in DOMAIN db[k] THEN db[k][key] ELSE 0]
       IN IF StartsWith(k, guildId \o <<":">>) /\ (~best.found \/ cand.xp >= best.xp)
          THEN TopScanLast(db, order, guildId, key, i + 1, cand)
          ELSE TopScanLast(db, order, guildId, key, i + 1, best)
topByLastWins(db, order, guildId, key) == TopScanLast(db, order, guildId, key, 1, NoTop)

\* the first element of the filtered, mapped and (stably) sorted entries: the first
\* entry of the guild, in Object.entries order, whose counter is the largest
RECURSIVE TopScan(_, _, _, _, _, _)
TopScan(db, order, guildId, key, i, best) ==
  IF i > Len(order) THEN best
  ELSE LET k == order[i]
           cand == [found |-> TRUE, userId |-> SplitSecond(k),
                    xp |-> IF key \in DOMAIN db[k] THEN db[k][key] ELSE 0]
       IN IF StartsWith(k, guildId \o <<":">>) /\ (~best.found \/ cand.xp > best.xp)
          THEN TopScan(db, order, guildId, key, i + 1, cand)
          ELSE TopScan(db, order, guildId, key, i + 1, best)

\* a topBy that returns nothing when the largest counter is 0
topByNoneForZero(db, order, guildId, key) ==
  LET t == TopScan(db, order, guildId, key, 1, NoTop) IN IF t.xp > 0 THEN t ELSE NoTop

topBy(db, order, guildId, key) == TopScan(db, order, guildId, key, 1, NoTop)

\* a faulty leader: the top entry leads even with a counter of 0
leaderIdAnyTop(top) == IF top.found THEN top.userId ELSE Null

\* top && (top.xp || 0) > 0 ? top.userId : null
leaderId(top) == IF top.found /\ top.xp > 0 THEN top.userId ELSE Null

\* updateCrownRoles computes the top entry and the leader of one dimension
TopBy(g, key) ==
  LET top == topBy(DBxp, xpOrder, g, key) IN
  /\ last' = Returning(Output("topBy", Null, <<>>, <<>>, NoReply),
                       [guildId |-> g, key |-> key, top |-> top, leader |-> leaderId(top)])
  /\ UNCHANGED <<progVars, lastAward, lastNotified, pass>>

\* arr.sort((a, b) => b.xp - a.xp) is stable: e goes behind every element whose
\* counter is at least its own
RECURSIVE InsertDescending(_, _)
InsertDescending(sorted, e) ==
  IF sorted = <<>> THEN <<e>>
  ELSE IF Head(sorted).xp >= e.xp THEN <<Head(sorted)>> \o InsertDescending(Tail(sorted), e)
  ELSE <<e>> \o sorted

RECURSIVE ListScan(_, _, _, _, _, _)
ListScan(db, order, guildId, key, i, sorted) ==
  IF i > Len(order) THEN sorted
  ELSE LET k == order[i]
           e == [userId |-> SplitSecond(k),
                 xp |-> IF key \in DOMAIN db[k] THEN db[k][key] ELSE 0]
       IN ListScan(db, order, guildId, key, i + 1,
                   IF StartsWith(k, guildId \o <<":">>) THEN InsertDescending(sorted, e)
                   ELSE sorted)

\* the entries of /leaderboard (key xp), /toptext (text) and /topvoice (voice):
\* filter, map, sort, slice(0, 10)
topTen(db, order, guildId, key) ==
  LET all == ListScan(db, order, guildId, key, 1, <<>>) IN SubSeq(all, 1, Min(Len(all), 10))

\* /leaderboard, /toptext, /topvoice up to the entries they list
Leaderboard(g, key) ==
  LET entries == topTen(DBxp, xpOrder, g, key) IN
  /\ last' = Returning(Output("leaderboard", Null, <<>>, <<>>,
                                Reply(FALSE, IF entries = <<>> THEN "none" ELSE "top10", entries)),
                       [guildId |-> g, key |-> key])
  /\ UNCHANGED <<progVars, lastAward, lastNotified, pass>>

\* the earlier revision of assign: holders are revoked also when there is no winner
assignRevokesEarlier(has, uid, winnerId) == has /\ uid # winnerId

\* a faulty assign: former holders keep the marker
assignRevokesNoOne(has, uid, winnerId) == FALSE

\* whether the loop of assign(role, winnerId) calls roles.remove for member uid;
\* has: the member holds the role
assignRevokes(has, uid, winnerId) == winnerId # Null /\ has /\ uid # winnerId

\* whether the loop of assign(role, winnerId) calls setNickRoleBadge for member uid
assignRecomposes(has, uid, winnerId) ==
  IF winnerId = Null THEN has ELSE has /\ uid # winnerId

\* whether assign calls roles.add for the winner; found: guild.members.fetch(winnerId)
\* returned the member
assignGrants(found, has) == found /\ ~has

WinnerOf(ps) == IF ps.pc = "text" THEN ps.newTextId ELSE ps.newVoiceId

CrownOutput == Output("updateCrownRoles", Null, <<>>, <<>>, NoReply)

\* updateCrownRoles(guild) is called by caller p
CrownBegin(p, g) ==
  /\ pass[p].pc = "idle"
  /\ pass' = [pass EXCEPT ![p] =
                [IdlePass EXCEPT !.pc = "ensure", !.g = g,
                                 !.repeat = pass[p].clean /\ pass[p].stable /\ pass[p].g = g,
                                 !.retry = ~pass[p].clean /\ pass[p].stable /\ pass[p].g = g]]
  /\ last' = CrownOutput
  /\ UNCHANGED <<progVars, lastAward, lastNotified>>

\* ensureCrownRoles returns; the previous holders and the leaders are computed
CrownRead(p, okText, okVoice) ==
  LET ps == pass[p]
      g == ps.g
      have == ensureCrownRoles(guildRoles[g], okText, okVoice)
  IN /\ ps.pc = "ensure"
     /\ guildRoles' = [guildRoles EXCEPT ![g] = have]
     /\ pass' = [pass EXCEPT ![p] =
          IF ~({TEXT_CHAMP_ROLE_NAME, VOICE_CHAMP_ROLE_NAME} \subseteq have)
          THEN [ps EXCEPT !.pc = "done", !.clean = FALSE]
          ELSE [ps EXCEPT
                  !.pc = "text", !.i = 1,
                  !.prevTextId = FirstHolder(g, TEXT_CHAMP_ROLE_NAME),
                  !.prevVoiceId = FirstHolder(g, VOICE_CHAMP_ROLE_NAME),
                  !.newTextId = leaderId(topBy(DBxp, xpOrder, g, "text")),
                  !.newVoiceId = leaderId(topBy(DBxp, xpOrder, g, "voice")),
                  !.held = {<<d, u>> \in Dims \X Users : CrownRole(d) \in roles[<<g, u>>]},
                  !.stable = TRUE]]
     /\ last' = CrownOutput
     /\ UNCHANGED <<now, ledgerVars, activityVars, roles, nick>>

\* a faulty order of assign: the winner is granted the role before the loop
winnerSlotFirst(n) == 1

\* assign takes n + 1 turns for n members: the loop over the members takes the
\* first n, the grant to the winner the last
winnerSlot(n) == n + 1

\* the member of the loop in turn i
memberInTurn(i) == MemberOrder[IF i > winnerSlot(Len(MemberOrder)) THEN i - 1 ELSE i]

\* the pass after a turn of assign: the next turn, or the next dimension after the
\* last turn (await assign(textRole, ..); await assign(voiceRole, ..); announcements)
turnDone(ps) ==
  IF ps.i = Len(MemberOrder) + 1
  THEN [ps EXCEPT !.i = 1, !.pc = IF ps.pc = "text" THEN "voice" ELSE "announce"]
  ELSE [ps EXCEPT !.i = @ + 1]

\* one round of the loop of assign over the members; okRemove, okRename: whether
\* roles.remove and setNickname succeed
AssignMember(p, okRemove, okRename) ==
  LET ps == pass[p]
      dim == ps.pc
      role == CrownRole(dim)
      u == memberInTurn(ps.i)
      m == <<ps.g, u>>
      has == role \in roles[m]
      rev == assignRevokes(has, u, WinnerOf(ps))
      rec == assignRecomposes(has, u, WinnerOf(ps))
      rolesAfter == IF rev /\ okRemove THEN roles[m] \ {role} ELSE roles[m]
      rn == rec /\ IssuesRename(nick[m], rolesAfter)
  IN /\ ps.pc \in Dims
     /\ ps.i # winnerSlot(Len(MemberOrder))
     /\ roles' = [roles EXCEPT ![m] = rolesAfter]
     /\ nick' = [nick EXCEPT ![m] = IF rec THEN setNickRoleBadge(@, rolesAfter, okRename) ELSE @]
     /\ pass' = [pass EXCEPT ![p] =
          [turnDone(ps) EXCEPT
                     !.revoked = IF rev THEN @ \cup {<<dim, u>>} ELSE @,
                     !.recomposed = IF rec THEN @ \cup {<<dim, u>>} ELSE @,
                     !.renamed = IF rn THEN @ \cup {<<dim, u>>} ELSE @,
                     !.clean = @ /\ (rev => okRemove) /\ (rn => okRename)]]
     /\ last' = CrownOutput
     /\ UNCHANGED <<now, ledgerVars, activityVars, guildRoles>>

\* the end of assign: the winner is fetched, granted the role and renamed; okFetch,
\* okAdd, okRename: whether members.fetch, roles.add and setNickname succeed
AssignWinner(p, okFetch, okAdd, okRename) ==
  LET ps == pass[p]
      dim == ps.pc
      role == CrownRole(dim)
      u == WinnerOf(ps)
      m == <<ps.g, u>>
      found == u \in Users /\ okFetch
      has == found /\ role \in roles[m]
      grants == u # Null /\ assignGrants(found, has)
      rec == u # Null /\ found
      rolesAfter == IF grants /\ okAdd THEN roles[m] \cup {role} ELSE roles[m]
      rn == rec /\ IssuesRename(nick[m], rolesAfter)
  IN /\ ps.pc \in Dims
     /\ ps.i = winnerSlot(Len(MemberOrder))
     /\ roles' = IF rec THEN [roles EXCEPT ![m] = rolesAfter] ELSE roles
     /\ nick' = IF rec THEN [nick EXCEPT ![m] = setNickRoleBadge(@, rolesAfter, okRename)] ELSE nick
     /\ pass' = [pass EXCEPT ![p] =
          [turnDone(ps) EXCEPT
                     !.granted = IF grants THEN @ \cup {<<dim, u>>} ELSE @,
                     !.recomposed = IF rec THEN @ \cup {<<dim, u>>} ELSE @,
                     !.renamed = IF rn THEN @ \cup {<<dim, u>>} ELSE @,
                     !.clean = @ /\ (u # Null => found) /\ (grants => okAdd) /\ (rn => okRename)]]
     /\ last' = CrownOutput
     /\ UNCHANGED <<now, ledgerVars, activityVars, guildRoles>>

\* faulty announcements: the double crown is announced on top of the single ones
announcementsWithSingles(ps) ==
  LET textChanged == ps.newTextId # Null /\ ps.newTextId # ps.prevTextId
      voiceChanged == ps.newVoiceId # Null /\ ps.newVoiceId # ps.prevVoiceId
  IN (IF textChanged /\ voiceChanged /\ ps.newTextId = ps.newVoiceId
      THEN <<[kind |-> "double", user |-> ps.newTextId]>> ELSE <<>>)
     \o (IF textChanged /\ ~voiceChanged
         THEN <<[kind |-> "text", user |-> ps.newTextId]>> ELSE <<>>)
     \o (IF voiceChanged THEN <<[kind |-> "voice", user |-> ps.newVoiceId]>> ELSE <<>>)

\* the announcements updateCrownRoles decides on, from the ids of the pass ps
announcements(ps) ==
  LET textChanged == ps.newTextId # Null /\ ps.newTextId # ps.prevTextId
      voiceChanged == ps.newVoiceId # Null /\ ps.newVoiceId # ps.prevVoiceId
      bothChanged == textChanged /\ voiceChanged /\ ps.newTextId = ps.newVoiceId
  IN IF bothChanged THEN <<[kind |-> "double", user |-> ps.newTextId]>>
     ELSE (IF textChanged THEN <<[kind |-> "text", user |-> ps.newTextId]>> ELSE <<>>)
          \o (IF voiceChanged THEN <<[kind |-> "voice", user |-> ps.newVoiceId]>> ELSE <<>>)

\* the announcements at the end of updateCrownRoles; okFetch: whether members.fetch
\* of the winner succeeds
Announce(p, okFetch) ==
  LET ps == pass[p]
      textChanged == ps.newTextId # Null /\ ps.newTextId # ps.prevTextId
      voiceChanged == ps.newVoiceId # Null /\ ps.newVoiceId # ps.prevVoiceId
      anns == IF ~okFetch THEN <<>> ELSE announcements(ps)
      sends == IF anns = <<>> THEN <<>>
               ELSE IF Len(anns) = 1
               THEN safeSendLevelUp(<<>>, ps.g, LevelUpMsg(anns[1].kind, anns[1].user, 0), NoChannel)
               ELSE safeSendLevelUp(
                      safeSendLevelUp(<<>>, ps.g, LevelUpMsg(anns[1].kind, anns[1].user, 0), NoChannel),
                      ps.g, LevelUpMsg(anns[2].kind, anns[2].user, 0), NoChannel)
  IN /\ ps.pc = "announce"
     /\ pass' = [pass EXCEPT ![p] =
          [ps EXCEPT !.pc = "done",
                     !.anns = [j \in 1..Len(sends) |-> anns[j]],
                     !.clean = @ /\ ((textChanged \/ voiceChanged) => okFetch)]]
     /\ last' = Output("updateCrownRoles", Null, <<>>, sends, NoReply)
     /\ UNCHANGED <<progVars, lastAward, lastNotified>>

\* updateCrownRoles returns to its caller
CrownReturn(p) ==
  /\ pass[p].pc = "done"
  /\ pass' = [pass EXCEPT ![p] =
                [IdlePass EXCEPT !.g = pass[p].g, !.clean = pass[p].clean,
                                 !.stable = pass[p].stable]]
  /\ last' = CrownOutput
  /\ UNCHANGED <<progVars, lastAward, lastNotified>>

\* /refreshcrowns: without the permission a private refusal, else a pass is started
RefreshCrowns(g, allowed) ==
  IF ~allowed
  THEN /\ last' = Output("refreshcrowns", Null, <<>>, <<>>, Reply(TRUE, "denied", <<>>))
       /\ UNCHANGED <<progVars, lastAward, lastNotified, pass>>
  ELSE CrownBegin("cmd", g)

\* /refreshcrowns: updateCrownRoles has returned, the command is answered
RefreshCrownsReply ==
  /\ CrownReturn("cmd")!1
  /\ CrownReturn("cmd")!2
  /\ last' = Output("refreshcrowns", Null, <<>>, <<>>, Reply(TRUE, "crowns", <<>>))
  /\ UNCHANGED <<progVars, lastAward, lastNotified>>

\* the callback of the hourly timer (and the startup pass) starts a pass; the timer
\* does not wait for the callback of the hour before
SweepFire(g) == CrownBegin("sweep", g)

\* /resetxp cut at its awaits, as the handler of a command (caller "cmd").
\* The start of the handler, up to the await of ensureCrownRoles: the checks, the
\* zeroing of the entries and saveData
ResetBegin(g, allowed, confirm) ==
  /\ pass["cmd"].pc = "idle"
  /\ IF ~allowed \/ ~confirm
     THEN /\ last' = Output("resetxp", Null, <<>>, <<>>,
                            Reply(TRUE, IF ~allowed THEN "denied" ELSE "aborted", <<>>))
          /\ UNCHANGED <<progVars, lastAward, lastNotified, pass>>
     ELSE /\ DBxp' = resetEntries(DBxp, g)
          /\ saveData
          /\ pass' = [Disturbed(pass) EXCEPT !["cmd"] =
                        [IdlePass EXCEPT !.pc = "reset_ensure", !.g = g,
                                         !.affected = resetAffected(DBxp, g)]]
          /\ last' = Output("resetxp", Null, <<>>, <<>>, NoReply)
          /\ UNCHANGED <<now, xpOrder, disk, DBfields, DBmembers, activityVars, platformVars>>

\* ensureCrownRoles and guild.members.fetch return
ResetEnsure(okText, okVoice) ==
  LET ps == pass["cmd"]
      have == ensureCrownRoles(guildRoles[ps.g], okText, okVoice)
  IN /\ ps.pc = "reset_ensure"
     /\ guildRoles' = [guildRoles EXCEPT ![ps.g] = have]
     /\ pass' = [pass EXCEPT !["cmd"] =
          [ps EXCEPT !.pc = "reset_member", !.i = 1,
                     !.clean = {TEXT_CHAMP_ROLE_NAME, VOICE_CHAMP_ROLE_NAME} \subseteq have]]
     /\ last' = Output("resetxp", Null, <<>>, <<>>, NoReply)
     /\ UNCHANGED <<now, ledgerVars, activityVars, roles, nick>>

\* one round of the loop over the members: the crown roles the member has are
\* removed and the nickname is composed again
ResetMember(okRemove, okRename) ==
  LET ps == pass["cmd"]
      m == <<ps.g, MemberOrder[ps.i]>>
      crowns == roles[m] \cap guildRoles[ps.g]
                  \cap {TEXT_CHAMP_ROLE_NAME, VOICE_CHAMP_ROLE_NAME}
      rolesAfter == resetMemberRoles(roles[m], guildRoles[ps.g], okRemove)
  IN /\ ps.pc = "reset_member"
     /\ ps.i <= Len(MemberOrder)
     /\ roles' = [roles EXCEPT ![m] = rolesAfter]
     /\ nick' = [nick EXCEPT ![m] = setNickRoleBadge(@, rolesAfter, okRename)]
     /\ pass' = [pass EXCEPT !["cmd"] =
          [ps EXCEPT !.i = @ + 1,
                     !.clean = /\ @
                               /\ crowns # {} => okRemove
                               /\ IssuesRename(nick[m], rolesAfter) => okRename]]
     /\ last' = Output("resetxp", Null, <<>>, <<>>, NoReply)
     /\ UNCHANGED <<now, ledgerVars, activityVars, guildRoles>>

\* after the loop: the announcement and the reply
ResetEnd ==
  LET ps == pass["cmd"]
  IN /\ ps.pc = "reset_member"
     /\ ps.i > Len(MemberOrder)
     /\ pass' = [pass EXCEPT !["cmd"] = [IdlePass EXCEPT !.g = ps.g, !.clean = ps.clean]]
     /\ last' = Failing(
                   Output("resetxp", Null, <<>>,
                          safeSendLevelUp(<<>>, ps.g, LevelUpMsg("reset", Null, 0), NoChannel),
                          Reply(TRUE, "reset", <<ps.affected>>)),
                   ~ps.clean)
     /\ UNCHANGED <<progVars, lastAward, lastNotified>>

\* setNickRoleBadge(member) is called; ok: whether member.setNickname succeeds
SetNickRoleBadge(g, u, ok) ==
  LET m == <<g, u>>
  IN /\ nick' = [nick EXCEPT ![m] = setNickRoleBadge(@, roles[m], ok)]
     /\ last' = Failing(
                   Returning(Output("setNickRoleBadge", mkey(g, u),
                                    IF IssuesRename(nick[m], roles[m])
                                    THEN <<[op |-> "setNickname",
                                            nick |-> finalNick(nick[m], roles[m])]>>
                                    ELSE <<>>,
                                    <<>>, NoReply),
                             [current |-> nick[m], roleSet |-> roles[m],
                              base |-> stripKnownBadges(nick[m]),
                              finalNick |-> finalNick(nick[m], roles[m])]),
                   IssuesRename(nick[m], roles[m]) /\ ~ok)
     /\ UNCHANGED <<now, ledgerVars, activityVars, roles, guildRoles, pass>>

\* an administrator gives a crown role to a member, or takes it away
ExtRoleEdit(g, u, role, add) ==
  /\ role \in guildRoles[g]
  /\ add = (role \notin roles[<<g, u>>])
  /\ roles' = [roles EXCEPT ![<<g, u>>] = IF add THEN @ \cup {role} ELSE @ \ {role}]
  /\ pass' = Disturbed(pass)
  /\ last' = Output("roleEdit", mkey(g, u), <<>>, <<>>, NoReply)
  /\ UNCHANGED <<now, ledgerVars, activityVars, nick, guildRoles>>

----------------------------------------------------------------------------
(* Initial states *)

\* a fresh process with no data file: DB = { members: {}, xp: {} }, empty maps, no
\* timer; nobody is in voice, nobody holds a role, display names are the user names
InitFresh ==
  /\ now = StartTime
  /\ DBxp = <<>>
  /\ xpOrder = <<>>
  /\ saveTimer = NoTimer
  /\ pendingSaves = {}
  /\ DBmembers = <<>>
  /\ DBfields = {"members", "xp"}
  /\ disk = <<>>
  /\ messageCooldown = <<>>
  /\ voiceActive = <<>>
  /\ liveVoice = [m \in Members |-> Disconnected]
  /\ roles = [m \in Members |-> {}]
  /\ nick = [m \in Members |-> m[2]]
  /\ guildRoles = [g \in Guilds |-> {}]
  /\ last = Output("start", Null, <<>>, <<>>, NoReply)
  /\ lastAward = <<>>
  /\ lastNotified = [m \in Members |-> "never"]
  /\ tempRoleTimers = <<>>
  /\ timeouts = {}
  /\ pass = [p \in Procs |-> IdlePass]

\* the counters of key are at or below c
XpWithin(key, c) ==
  LET e == ensureXpEntry(DBxp, key) IN e.xp <= c /\ e.text <= c /\ e.voice <= c

(* The ledger under /givexp, /rank and /resetxp *)
LedgerAmounts == {-99, 99}

NextLedger ==
  \/ \E amount \in LedgerAmounts, sourceOpt \in {"", "voice"} :
       /\ XpWithin(mkey(G1, A), MaxXp - amount)
       /\ GiveXP(G1, A, amount, sourceOpt, TRUE)
  \/ /\ XpWithin(mkey(G1, A), MaxXp - MESSAGE_XP)
     /\ GiveXP(G1, A, MESSAGE_XP, "text", TRUE)
  \/ \E u \in Users : GiveXP(G1, u, 15, "text", FALSE)
  \/ \E u \in Users : Rank(G1, u)
  \/ \E allowed, confirm, okRemove \in BOOLEAN : ResetXP(G1, allowed, confirm, TRUE, TRUE, okRemove, TRUE)

SpecLedger == InitFresh /\ [][NextLedger]_vars

(* Messages under the cooldown *)
TimeSteps == {10000, 50000}

NextText ==
  \/ \E u \in Users, isBot \in BOOLEAN : MessageCreate(G1, u, isBot)
  \/ \E d \in TimeSteps : Advance(d)
  \/ Flush
  \/ VoiceStateUpdate(G1, B, [channel |-> "vc", selfMute |-> FALSE, selfDeaf |-> FALSE])
  \/ VoiceStateUpdate(G1, B, Disconnected)

SpecText == InitFresh /\ [][NextText]_vars

(* Voice presence and the ticker *)
\* the ticker stops once a voice counter has reached this
VoiceCap == 15

NextVoice ==
  \/ \E newS \in VoiceStates : VoiceStateUpdate(G1, A, newS)
  \/ \E ch \in {NoChannel, "vc"} :
       VoiceStateUpdate(G1, B, [channel |-> ch, selfMute |-> FALSE, selfDeaf |-> FALSE])
  \/ \E newS \in {Disconnected, [channel |-> "vc", selfMute |-> FALSE, selfDeaf |-> FALSE]} :
       VoiceStateMissed(G1, A, newS)
  \/ /\ \A m \in Members : ensureXpEntry(DBxp, mkey(m[1], m[2])).voice < VoiceCap
     /\ VoiceTick
  \/ MessageCreate(G1, A, FALSE)

SpecVoice == InitFresh /\ [][NextVoice]_vars

(* Crown reconciliation *)
\* a display name that fills the limit of NICK_MAX code units and has a badge glyph
\* inside, three units before its end
LongName ==
  [j \in 1..(NICK_MAX - 5) |-> "x"] \o <<" ">> \o NEWBIE_BADGE \o <<"z", "z">>

\* /givexp is not used on a counter once it would pass this
CrownCap == 50

InitCrown ==
  /\ now = StartTime
  /\ DBxp = <<>>
  /\ xpOrder = <<>>
  /\ saveTimer = NoTimer
  /\ pendingSaves = {}
  /\ DBmembers = <<>>
  /\ DBfields = {"members", "xp"}
  /\ disk = <<>>
  /\ messageCooldown = <<>>
  /\ voiceActive = <<>>
  /\ liveVoice = [m \in Members |-> Disconnected]
  /\ roles = [m \in Members |-> {}]
  /\ \E n \in {A, LongName} : nick = [m \in Members |-> IF m = <<G1, A>> THEN n ELSE m[2]]
  /\ guildRoles = [g \in Guilds |-> {}]
  /\ last = Output("start", Null, <<>>, <<>>, NoReply)
  /\ lastAward = <<>>
  /\ lastNotified = [m \in Members |-> "never"]
  /\ tempRoleTimers = <<>>
  /\ timeouts = {}
  /\ pass = [p \in Procs |-> IdlePass]

\* the ledger is edited between passes (a pass reads it at one point only); roles
\* are edited from outside between passes and while ensureCrownRoles is awaited
NextCrown ==
  \/ \E c \in {<<A, 50, "text">>, <<B, 30, "text">>, <<A, 30, "voice">>} :
       /\ pass["sweep"].pc = "idle"
       /\ ensureXpEntry(DBxp, mkey(G1, c[1]))[c[3]] + c[2] <= CrownCap
       /\ GiveXP(G1, c[1], c[2], c[3], TRUE)
  \/ \E okRemove \in BOOLEAN :
       /\ pass["sweep"].pc = "idle"
       /\ ResetXP(G1, TRUE, TRUE, TRUE, TRUE, okRemove, TRUE)
  \/ \E u \in Users, d \in Dims, add \in BOOLEAN :
       /\ pass["sweep"].pc \in {"idle", "ensure"}
       /\ ExtRoleEdit(G1, u, CrownRole(d), add)
  \/ CrownBegin("sweep", G1)
  \/ \E okText, okVoice \in BOOLEAN : CrownRead("sweep", okText, okVoice)
  \/ \E okRemove \in BOOLEAN : AssignMember("sweep", okRemove, TRUE)
  \/ \E okFetch, okAdd \in BOOLEAN : AssignWinner("sweep", okFetch, okAdd, TRUE)
  \/ \E okFetch \in BOOLEAN : Announce("sweep", okFetch)
  \/ CrownReturn("sweep")

SpecCrown == InitCrown /\ [][NextCrown]_vars

(* topBy over ledgers as a process can hold them *)
\* the keys of the ledgers: two members of one guild, one member of another
TopKeys == {mkey(G1, A), mkey(G1, B), mkey(G2, A)}

\* the entries: counters as addXP leaves them, and an entry of the older shape
\* { xp } that was loaded from the data file and not touched since
TopEntries ==
  {[xp |-> t + v, text |-> t, voice |-> v] : t \in {0, 30, 50}, v \in {0, 30}}
    \cup {[xp |-> 40]}

\* the keys in any order of insertion
TopOrders ==
  {q \in UNION {[1..n -> TopKeys] : n \in 0..Cardinality(TopKeys)} :
     \A i, j \in 1..Len(q) : i # j => q[i] # q[j]}

InitTop ==
  /\ now = StartTime
  /\ \E q \in TopOrders :
       /\ xpOrder = q
       /\ DBxp \in [{q[i] : i \in 1..Len(q)} -> TopEntries]
  /\ saveTimer = NoTimer
  /\ pendingSaves = {}
  /\ DBmembers = <<>>
  /\ DBfields = {"members", "xp"}
  /\ disk = <<>>
  /\ messageCooldown = <<>>
  /\ voiceActive = <<>>
  /\ liveVoice = [m \in Members |-> Disconnected]
  /\ roles = [m \in Members |-> {}]
  /\ nick = [m \in Members |-> m[2]]
  /\ guildRoles = [g \in Guilds |-> {}]
  /\ last = Output("start", Null, <<>>, <<>>, NoReply)
  /\ lastAward = <<>>
  /\ lastNotified = [m \in Members |-> "never"]
  /\ tempRoleTimers = <<>>
  /\ timeouts = {}
  /\ pass = [p \in Procs |-> IdlePass]

NextTop == \E g \in Guilds, key \in Dims : TopBy(g, key)

SpecTop == InitTop /\ [][NextTop]_vars

(* the hourly sweep and /refreshcrowns, each an async function of its own; every
   platform call succeeds *)
NextOverlap ==
  \/ /\ \A p \in Procs : pass[p].pc = "idle"
     /\ ensureXpEntry(DBxp, mkey(G1, A)).text + 50 <= CrownCap
     /\ GiveXP(G1, A, 50, "text", TRUE)
  \/ \E allowed \in BOOLEAN : RefreshCrowns(G1, allowed)
  \/ RefreshCrownsReply
  \/ SweepFire(G1)
  \/ CrownReturn("sweep")
  \/ \E p \in Procs : CrownRead(p, TRUE, TRUE)
  \/ \E p \in Procs : AssignMember(p, TRUE, TRUE)
  \/ \E p \in Procs : AssignWinner(p, TRUE, TRUE, TRUE)
  \/ \E p \in Procs : Announce(p, TRUE)

SpecOverlap == InitCrown /\ [][NextOverlap]_vars

(* /resetxp while the hourly sweep may be inside a pass; the platform calls of the
   pass succeed *)
NextReset ==
  \/ \E c \in {<<G1, A>>, <<G2, A>>} :
       /\ \A p \in Procs : pass[p].pc = "idle"
       /\ ensureXpEntry(DBxp, mkey(c[1], c[2])).text + 50 <= CrownCap
       /\ GiveXP(c[1], c[2], 50, "text", TRUE)
  \/ \E allowed, confirm \in BOOLEAN : ResetBegin(G1, allowed, confirm)
  \/ \E okText \in BOOLEAN : ResetEnsure(okText, TRUE)
  \/ \E okRemove \in BOOLEAN : ResetMember(okRemove, TRUE)
  \/ ResetEnd
  \/ SweepFire(G1)
  \/ CrownRead("sweep", TRUE, TRUE)
  \/ AssignMember("sweep", TRUE, TRUE)
  \/ AssignWinner("sweep", TRUE, TRUE, TRUE)
  \/ Announce("sweep", TRUE)
  \/ CrownReturn("sweep")

SpecReset == InitCrown /\ [][NextReset]_vars

(* the commands of the administrators: /givexp, /resetxp, /temprole *)
MaxTimeouts == 2
AdminElapsed == 20000
TEMP_ROLE == "vip"

\* durations as typed: 10 s, 9 s, 0, and one that ms cannot read
Durations == {<<"1", "0", "s">>, <<"9", "s">>, <<"0">>, <<"s", "o", "o", "n">>}

\* what /temprole meets: <<allowed, okFetch, above>>, at most one of them bad
TempRoleCases ==
  {c \in [1..3 -> BOOLEAN] : Cardinality({i \in 1..3 : ~c[i]}) <= 1}

NextAdmin ==
  \/ /\ mkey(G1, A) \notin DOMAIN DBxp
     /\ GiveXP(G1, A, 50, "text", TRUE)
  \/ \E allowed, confirm \in BOOLEAN : ResetXP(G1, allowed, confirm, TRUE, TRUE, TRUE, TRUE)
  \/ \E u \in Users, d \in Durations, c \in TempRoleCases :
       /\ Cardinality(timeouts) < MaxTimeouts
       /\ TempRole(G1, u, TEMP_ROLE, d, c[1], c[2], c[3], TRUE)
  \/ \E id \in 1..(MaxTimeouts + 1), okRemove \in BOOLEAN : TempRoleFire(id, okRemove)
  \/ \E id \in 1..(MaxTimeouts + 1) : TempRoleDelete(id)
  \/ /\ now + 10000 - StartTime <= AdminElapsed
     /\ Advance(10000)

SpecAdmin == InitFresh /\ [][NextAdmin]_vars

(* setNickRoleBadge over display names and role sets *)
BadgeRoles ==
  {NEWBIE_ROLE_NAME, NPC_ROLE_NAME, TEXT_CHAMP_ROLE_NAME, VOICE_CHAMP_ROLE_NAME}

\* a name of n letters
Letters(n) == [j \in 1..n |-> "x"]

\* display names: short ones, with and without badges and outer spaces, with
\* badges typed by hand in another order or with two spaces; names of the greatest
\* length, and names that the longest prefix still fits before
NickNames ==
  {<<"A">>, <<"b", " ", "c">>, NEWBIE_BADGE \o <<" ", "A">>,
   <<"A", " ">> \o VOICE_CROWN \o <<" ">> \o TEXT_CROWN, <<" ", "A">>,
   VOICE_CROWN \o <<" ">> \o NPC_BADGE \o <<" ", "A", " ">> \o NEWBIE_BADGE,
   NEWBIE_BADGE \o <<" ", " ">> \o TEXT_CROWN \o <<" ", "A">>,
   Letters(NICK_MAX), Letters(NICK_MAX - 2), Letters(NICK_MAX - 8),
   Letters(NICK_MAX - 3) \o <<" ", "y", "y">>, LongName}

InitNick ==
  /\ now = StartTime
  /\ DBxp = <<>>
  /\ xpOrder = <<>>
  /\ saveTimer = NoTimer
  /\ pendingSaves = {}
  /\ DBmembers = <<>>
  /\ DBfields = {"members", "xp"}
  /\ disk = <<>>
  /\ messageCooldown = <<>>
  /\ voiceActive = <<>>
  /\ liveVoice = [m \in Members |-> Disconnected]
  /\ \E rs \in SUBSET BadgeRoles :
       roles = [m \in Members |-> IF m = <<G1, A>> THEN rs ELSE {}]
  /\ \E n \in NickNames : nick = [m \in Members |-> IF m = <<G1, A>> THEN n ELSE m[2]]
  /\ guildRoles = [g \in Guilds |-> IF g = G1 THEN BadgeRoles ELSE {}]
  /\ last = Output("start", Null, <<>>, <<>>, NoReply)
  /\ lastAward = <<>>
  /\ lastNotified = [m \in Members |-> "never"]
  /\ tempRoleTimers = <<>>
  /\ timeouts = {}
  /\ pass = [p \in Procs |-> IdlePass]

NextNick ==
  \/ \E ok \in BOOLEAN : SetNickRoleBadge(G1, A, ok)
  \/ \E role \in BadgeRoles, add \in BOOLEAN : ExtRoleEdit(G1, A, role, add)

SpecNick == InitNick /\ [][NextNick]_vars

(* the level curve over the totals a loaded ledger can hold: /rank applies calcLevel
   and xpForNext to the total of the entry, /givexp applies addXP *)
MaxCurveXp == 600

InitLevel ==
  /\ now = StartTime
  /\ \E x \in 0..MaxCurveXp :
       DBxp = [k \in {mkey(G1, A)} |-> [xp |-> x, text |-> x, voice |-> 0]]
  /\ xpOrder = <<mkey(G1, A)>>
  /\ saveTimer = NoTimer
  /\ pendingSaves = {}
  /\ DBmembers = <<>>
  /\ DBfields = {"members", "xp"}
  /\ disk = <<>>
  /\ messageCooldown = <<>>
  /\ voiceActive = <<>>
  /\ liveVoice = [m \in Members |-> Disconnected]
  /\ roles = [m \in Members |-> {}]
  /\ nick = [m \in Members |-> m[2]]
  /\ guildRoles = [g \in Guilds |-> {}]
  /\ last = Output("start", Null, <<>>, <<>>, NoReply)
  /\ lastAward = <<>>
  /\ lastNotified = [m \in Members |-> "never"]
  /\ tempRoleTimers = <<>>
  /\ timeouts = {}
  /\ pass = [p \in Procs |-> IdlePass]

NextLevel ==
  \/ Rank(G1, A)
  \/ \E amount \in {0, 1, 99} :
       /\ DBxp[mkey(G1, A)].xp + amount <= MaxCurveXp
       /\ GiveXP(G1, A, amount, "text", TRUE)

SpecLevel == InitLevel /\ [][NextLevel]_vars

(* addXP applied again and again to one entry that starts absent: the deltas are the
   amounts /givexp passes on (any integer), the source is one of its two choices *)
MaxDeltas == 4
Deltas == {-20, -5, 5, 15, 20}

\* the deltas applied so far, oldest first
DeltasSoFar == IF last.op = "addXP" THEN last.ret.deltas ELSE <<>>

ApplyDelta(g, u, amount, source) ==
  LET key == mkey(g, u)
  IN /\ Len(DeltasSoFar) < MaxDeltas
     /\ addXP(g, u, amount, source)
     /\ last' = Returning(Output("addXP", key, <<addXPCall(DBxp, key, amount, source)>>, <<>>, NoReply),
                          [deltas |-> Append(DeltasSoFar, amount)])
     /\ UNCHANGED <<now, disk, DBfields, DBmembers, activityVars, platformVars, pass>>

NextDeltas == \E amount \in Deltas, source \in {"text", "voice"} : ApplyDelta(G1, A, amount, source)

SpecDeltas == InitFresh /\ [][NextDeltas]_vars

(* the ledger from empty under everything that awards or clears XP: messages (+15
   text), the voice ticker (+5 voice), /givexp with an amount of 0 or more and each
   choice of its source option, and /resetxp *)
SteadyCap == 40
SteadyGrants == {0, 7}

NextSteady ==
  \/ \E u \in Users : MessageCreate(G1, u, FALSE)
  \/ Advance(MESSAGE_COOLDOWN_MS)
  \/ \E newS \in {Disconnected, [channel |-> "vc", selfMute |-> FALSE, selfDeaf |-> FALSE]} :
       VoiceStateUpdate(G1, A, newS)
  \/ /\ \A m \in Members : ensureXpEntry(DBxp, mkey(m[1], m[2])).voice < VoiceCap
     /\ VoiceTick
  \/ \E amount \in SteadyGrants, sourceOpt \in {"", "text", "voice"} :
       /\ XpWithin(mkey(G1, A), SteadyCap - amount)
       /\ GiveXP(G1, A, amount, sourceOpt, TRUE)
  \/ ResetXP(G1, TRUE, TRUE, TRUE, TRUE, TRUE, TRUE)

SpecSteady == InitFresh /\ [][NextSteady]_vars

(* the debounced store: handlers that change DB and call saveData, the clock and
   the timer of saveData. The timer fires once it is due, and the clock goes on. *)
SaveElapsed == 1500
SaveCap == 10
SaveStep == 200

SaveClock == \E d \in {SaveStep, SAVE_DEBOUNCE_MS} : AdvanceWithin(d, SaveElapsed)

\* the clock can still reach the due time of a timer set now
SaveRoom == now + SAVE_DEBOUNCE_MS + SaveStep - StartTime <= SaveElapsed

NextSave ==
  \/ /\ SaveRoom
     /\ MessageCreate(G1, B, FALSE)
  \/ /\ SaveRoom
     /\ XpWithin(mkey(G1, A), SaveCap - VOICE_XP_PER_MIN)
     /\ GiveXP(G1, A, VOICE_XP_PER_MIN, "voice", TRUE)
  \/ /\ SaveRoom
     /\ mkey(G1, A) \notin DOMAIN DBmembers
     /\ GuildMemberAdd(G1, A, TRUE, TRUE, TRUE)
  \/ SaveClock
  \/ Flush

SpecSave == InitFresh /\ [][NextSave]_vars /\ WF_vars(Flush) /\ WF_vars(SaveClock)

(* the debounced store with a prompt timer: the timer of saveData fires at its due
   time, before the clock goes on and before any handler that is due later. What a
   crash leaves behind is the document on disk. *)
NoneDue == \A t \in pendingSaves : now < t

PromptClock ==
  \E d \in {SaveStep, SAVE_DEBOUNCE_MS} :
    /\ \A t \in pendingSaves : now + d <= t
    /\ AdvanceWithin(d, SaveElapsed)

NextCrash ==
  \/ /\ NoneDue
     /\ MessageCreate(G1, B, FALSE)
  \/ /\ NoneDue
     /\ XpWithin(mkey(G1, A), SaveCap - VOICE_XP_PER_MIN)
     /\ GiveXP(G1, A, VOICE_XP_PER_MIN, "voice", TRUE)
  \/ /\ NoneDue
     /\ mkey(G1, A) \notin DOMAIN DBmembers
     /\ GuildMemberAdd(G1, A, TRUE, TRUE, TRUE)
  \/ PromptClock
  \/ Flush

SpecCrash == InitFresh /\ [][NextCrash]_vars

(* Startup: DB = loadData(), and the handlers on the DB that was loaded. No
   handler assigns a property of DB, so DB keeps the property names it was loaded
   with. A file is missing, is text that JSON.parse rejects, or is the JSON text of
   a value; of the values, the model has the objects with or without the
   properties members and xp (null and {} have neither). *)
AllFields == {"members", "xp"}
StoredXp == [k \in {mkey(G1, A)} |-> [xp |-> 20, text |-> 15, voice |-> 5]]
Files ==
  {[kind |-> "missing", fields |-> {}, members |-> <<>>, xp |-> <<>>],
   [kind |-> "text", fields |-> {}, members |-> <<>>, xp |-> <<>>]}
  \cup {[kind |-> "json", fields |-> F, members |-> <<>>, xp |-> <<>>] : F \in SUBSET AllFields}
  \cup {[kind |-> "json", fields |-> AllFields, members |-> <<>>, xp |-> StoredXp]}

\* a faulty loadData: a value without the two properties is replaced as well
loadDataChecked(file) ==
  IF file.kind = "json" /\ file.fields = AllFields
  THEN [fields |-> file.fields, members |-> file.members, xp |-> file.xp]
  ELSE [fields |-> AllFields, members |-> <<>>, xp |-> <<>>]

\* try { return JSON.parse(fs.readFileSync(DATA_FILE, 'utf8')); } catch { return { members: {}, xp: {} }; }
loadData(file) ==
  IF file.kind = "json"
  THEN [fields |-> file.fields, members |-> file.members, xp |-> file.xp]
  ELSE [fields |-> AllFields, members |-> <<>>, xp |-> <<>>]

InitLoad ==
  /\ now = StartTime
  /\ \E file \in Files :
       /\ disk = file
       /\ DBfields = loadData(file).fields
       /\ DBxp = loadData(file).xp
       /\ xpOrder = IF loadData(file).xp = <<>> THEN <<>> ELSE <<mkey(G1, A)>>
       /\ DBmembers = loadData(file).members
  /\ saveTimer = NoTimer
  /\ pendingSaves = {}
  /\ messageCooldown = <<>>
  /\ voiceActive = <<>>
  /\ liveVoice = [m \in Members |-> Disconnected]
  /\ roles = [m \in Members |-> {}]
  /\ nick = [m \in Members |-> m[2]]
  /\ guildRoles = [g \in Guilds |-> {}]
  /\ last = Output("start", Null, <<>>, <<>>, NoReply)
  /\ lastAward = <<>>
  /\ lastNotified = [m \in Members |-> "never"]
  /\ tempRoleTimers = <<>>
  /\ timeouts = {}
  /\ pass = [p \in Procs |-> IdlePass]

\* a handler ends with the TypeError of reading a property of undefined
Throw(op, key) ==
  /\ last' = Throwing(Output(op, key, <<>>, <<>>, NoReply))
  /\ UNCHANGED <<lastAward, lastNotified, pass>>

\* messageCreate: ensureXpEntry reads DB.xp[key] after the cooldown was recorded
LoadedMessageCreate(g, u) ==
  IF "xp" \in DBfields \/ cooldownDiscards(now, cooldownLast(messageCooldown, cdKeyOf(mkey(g, u))))
  THEN MessageCreate(g, u, FALSE)
  ELSE /\ messageCooldown' = MapSet(messageCooldown, cdKeyOf(mkey(g, u)), now)
       /\ Throw("messageCreate", mkey(g, u))
       /\ UNCHANGED <<now, ledgerVars, voiceActive, liveVoice, platformVars, timerVars>>

\* /rank: ensureXpEntry reads DB.xp[key]
LoadedRank(g, u) ==
  IF "xp" \in DBfields
  THEN Rank(g, u)
  ELSE /\ Throw("rank", mkey(g, u))
       /\ UNCHANGED progVars

\* topBy, as updateCrownRoles calls it: Object.entries(DB.xp)
LoadedTopBy(g, key) ==
  IF "xp" \in DBfields
  THEN TopBy(g, key)
  ELSE /\ Throw("topBy", Null)
       /\ UNCHANGED progVars

\* guildMemberAdd: DB.members[key] is read after the roles were ensured and added
LoadedGuildMemberAdd(g, u) ==
  IF "members" \in DBfields
  THEN GuildMemberAdd(g, u, TRUE, TRUE, TRUE)
  ELSE /\ guildRoles' = [guildRoles EXCEPT ![g] = @ \cup {NEWBIE_ROLE_NAME, NPC_ROLE_NAME}]
       /\ roles' = [roles EXCEPT ![<<g, u>>] = @ \cup {NEWBIE_ROLE_NAME}]
       /\ Throw("guildMemberAdd", mkey(g, u))
       /\ UNCHANGED <<now, ledgerVars, activityVars, nick>>

NextLoad ==
  \/ \E u \in Users : LoadedMessageCreate(G1, u)
  \/ \E u \in Users : LoadedRank(G1, u)
  \/ \E key \in Dims : LoadedTopBy(G1, key)
  \/ \E u \in Users : LoadedGuildMemberAdd(G1, u)
  \/ Advance(MESSAGE_COOLDOWN_MS)

SpecLoad == InitLoad /\ [][NextLoad]_vars

(* Onboarding: members join, an administrator takes the onboarding role away, the
   promotion sweep runs, and the clock goes to an hour before the end of the
   onboarding period of a member who joined at the start, then on by hours *)
HourMs == 60 * 60 * 1000
OnboardSlack == 3600000
\* the platform calls of a join: at most one of them fails
JoinCases == {c \in BOOLEAN \X BOOLEAN \X BOOLEAN : Cardinality({i \in 1..3 : ~c[i]}) <= 1}

NextOnboard ==
  \/ \E u \in Users, c \in JoinCases :
       /\ mkey(G1, u) \notin DOMAIN DBmembers
       /\ GuildMemberAdd(G1, u, c[1], c[2], c[3])
  \/ \E failRemove, failAdd \in SUBSET {A} :
       PromoteIfDue(G1, failRemove, failAdd, TRUE)
  \/ \E u \in Users :
       /\ NEWBIE_ROLE_NAME \in guildRoles[G1]
       /\ NEWBIE_ROLE_NAME \in roles[<<G1, u>>]
       /\ ExtRoleEdit(G1, u, NEWBIE_ROLE_NAME, FALSE)
  \/ /\ now = StartTime
     /\ AdvanceWithin(NEWBIE_DURATION_MS - HourMs, NEWBIE_DURATION_MS + OnboardSlack)
  \/ /\ now > StartTime
     /\ AdvanceWithin(HourMs, NEWBIE_DURATION_MS + OnboardSlack)

SpecOnboard == InitFresh /\ [][NextOnboard]_vars

(* the ledger from empty under addXP with amounts of either sign, as /givexp passes
   them on with each choice of its source option, under messages and under /resetxp *)
DriftCap == 30
DriftAmounts == {-20, -5, 5, 15}

NextDrift ==
  \/ \E amount \in DriftAmounts, sourceOpt \in {"", "text", "voice"} :
       /\ XpWithin(mkey(G1, A), DriftCap - amount)
       /\ GiveXP(G1, A, amount, sourceOpt, TRUE)
  \/ MessageCreate(G1, B, FALSE)
  \/ GiveXP(G1, B, -VOICE_XP_PER_MIN, "voice", TRUE)
  \/ ResetXP(G1, TRUE, TRUE, TRUE, TRUE, TRUE, TRUE)

SpecDrift == InitFresh /\ [][NextDrift]_vars

(* two communities, the identifier of one a prefix of the other's: grants, /resetxp,
   the listings and the reconciliation pass of each *)
IsolationGrants ==
  {<<G1, A, 50, "text">>, <<G2, A, 30, "text">>, <<G2, B, 50, "text">>}

NextIsolation ==
  \/ \E c \in IsolationGrants :
       /\ pass["sweep"].pc = "idle"
       /\ ensureXpEntry(DBxp, mkey(c[1], c[2]))[c[4]] + c[3] <= CrownCap
       /\ GiveXP(c[1], c[2], c[3], c[4], TRUE)
  \/ \E g \in Guilds :
       /\ pass["sweep"].pc = "idle"
       /\ ResetXP(g, TRUE, TRUE, TRUE, TRUE, TRUE, TRUE)
  \/ \E g \in Guilds, key \in Dims :
       /\ pass["sweep"].pc = "idle"
       /\ TopBy(g, key)
  \/ \E g \in Guilds, key \in {"xp", "text", "voice"} :
       /\ pass["sweep"].pc = "idle"
       /\ Leaderboard(g, key)
  \/ \E g \in Guilds : CrownBegin("sweep", g)
  \/ CrownRead("sweep", TRUE, TRUE)
  \/ AssignMember("sweep", TRUE, TRUE)
  \/ AssignWinner("sweep", TRUE, TRUE, TRUE)
  \/ Announce("sweep", TRUE)
  \/ CrownReturn("sweep")

SpecIsolation == InitFresh /\ [][NextIsolation]_vars

(* awards between the steps of the sweeps: message handlers, the voice ticker and
   /rank run while a reconciliation pass is suspended at any of its awaits and
   between the guilds of a promotion sweep *)
TickCap == 10

NextInterleave ==
  \/ \E u \in Users : MessageCreate(G1, u, FALSE)
  \/ Advance(MESSAGE_COOLDOWN_MS)
  \/ VoiceStateUpdate(G1, A, [channel |-> "vc", selfMute |-> FALSE, selfDeaf |-> FALSE])
  \/ /\ \A m \in Members : ensureXpEntry(DBxp, mkey(m[1], m[2])).voice < TickCap
     /\ VoiceTick
  \/ Rank(G1, B)
  \/ CrownBegin("sweep", G1)
  \/ CrownRead("sweep", TRUE, TRUE)
  \/ AssignMember("sweep", TRUE, TRUE)
  \/ AssignWinner("sweep", TRUE, TRUE, TRUE)
  \/ Announce("sweep", TRUE)
  \/ CrownReturn("sweep")
  \/ \E g \in Guilds : PromoteIfDue(g, {}, {}, TRUE)

SpecInterleave == InitFresh /\ [][NextInterleave]_vars

----------------------------------------------------------------------------
(* Properties of the ledger (SpecLedger) *)

\* C1: from an empty ledger, after any sequence of addXP calls (any amount, positive
\* or negative, on text or voice), rank reads and /resetxp, the xp, text and voice
\* counters of every ledger entry are >= 0.
C1_CountersNonNegative ==
  \A k \in DOMAIN DBxp : DBxp[k].xp >= 0 /\ DBxp[k].text >= 0 /\ DBxp[k].voice >= 0

\* a negative amount larger than the counters has just been applied, and clamped
C1_NegativeDeltaClamped ==
  /\ last.op = "givexp"
  /\ Len(last.calls) = 1
  /\ last.calls[1].amount < 0
  /\ last.calls[1].out.before > 0
  /\ last.calls[1].out.before + last.calls[1].amount < 0
  /\ DBxp[last.key].xp = 0

\* C2: addXP returns levelUp = TRUE exactly when the level of the total after the
\* clamped update is above the level of the total before, and newLevel is the level
\* of the total after; an entry at total 99 that receives +15 text XP reports
\* levelUp = TRUE and newLevel = 1.
C2_LevelUpReported ==
  [][\A i \in 1..Len(last'.calls) :
       LET c == last'.calls[i] IN
       /\ c.out.before = ensureXpEntry(DBxp, c.key).xp
       /\ c.out.after = Max(0, c.out.before + c.amount)
       /\ c.out.after = DBxp'[c.key].xp
       /\ c.out.levelUp = (calcLevel(c.out.after) > calcLevel(c.out.before))
       /\ c.out.newLevel = calcLevel(c.out.after)
       /\ (c.out.before = 99 /\ c.amount = 15 /\ c.source = "text")
            => (c.out.levelUp /\ c.out.newLevel = 1)
  ]_vars

\* an entry at total 99 has just received +15 text XP
C2_CrossesIntoLevelOne ==
  /\ Len(last.calls) = 1
  /\ last.calls[1].out.before = 99
  /\ last.calls[1].amount = 15
  /\ last.calls[1].source = "text"
  /\ last.calls[1].out.levelUp
  /\ last.calls[1].out.newLevel = 1
  /\ DBxp[last.key].xp = 114

----------------------------------------------------------------------------
(* Properties of the message cooldown (SpecText) *)

\* the step is the handling of a message of a member (not of a bot)
MessageStep == last'.op = "messageCreate" /\ now' = now

\* C3: a message of a member is awarded MESSAGE_XP (15) text XP iff at least
\* MESSAGE_COOLDOWN_MS (60 s) have passed since the last awarded message of the same
\* member in this process, or none was awarded yet; so two awarded messages of one
\* member are at least 60 s apart, and a message that is not awarded leaves the
\* counters as they were (two messages 10 s apart leave text XP at 15).
C3_AwardedIffCooldownOver ==
  [][MessageStep =>
       LET key == last'.key
           cd == cdKeyOf(key)
           old == ensureXpEntry(DBxp, key)
           due == cd \notin DOMAIN lastAward \/ now - lastAward[cd] >= 60000
           awarded == last'.calls # <<>>
       IN /\ awarded <=> due
          /\ awarded => /\ Len(last'.calls) = 1
                        /\ last'.calls[1].amount = 15
                        /\ last'.calls[1].source = "text"
                        /\ DBxp'[key] = [xp |-> old.xp + 15, text |-> old.text + 15,
                                         voice |-> old.voice]
                        /\ lastAward'[cd] = now
                        /\ cd \in DOMAIN lastAward => now - lastAward[cd] >= 60000
          /\ ~awarded => DBxp' = DBxp
  ]_vars

\* the member was awarded 15 for a first message; a second one 10 s later was discarded
C3_SecondMessageTenSecondsLater ==
  /\ last.op = "messageCreate"
  /\ last.key = mkey(G1, A)
  /\ last.calls = <<>>
  /\ cdKeyOf(last.key) \in DOMAIN lastAward
  /\ now - lastAward[cdKeyOf(last.key)] = 10000
  /\ DBxp[last.key].text = 15

\* C4: a message discarded by the cooldown check changes no state: the ledger, the
\* cooldown timestamp of the member (not refreshed) and of every other member and
\* the presence sets are unchanged, no flush is scheduled and no level-up
\* notification is sent.
C4_DiscardedChangesNothing ==
  [][(/\ MessageStep
      /\ cdKeyOf(last'.key) \in DOMAIN lastAward
      /\ now - lastAward[cdKeyOf(last'.key)] < 60000)
     => /\ UNCHANGED <<DBxp, xpOrder, messageCooldown, voiceActive, saveTimer, disk>>
        /\ last'.calls = <<>>
        /\ last'.sends = <<>>
  ]_vars

\* a message has just been discarded some time after the awarded one, while another
\* member has a timestamp and is in the presence set and no flush is pending
C4_DiscardedWhileOthersActive ==
  /\ last.op = "messageCreate"
  /\ last.key = mkey(G1, A)
  /\ last.calls = <<>>
  /\ cdKeyOf(last.key) \in DOMAIN messageCooldown
  /\ messageCooldown[cdKeyOf(last.key)] < now
  /\ now - messageCooldown[cdKeyOf(last.key)] < 60000
  /\ cdKeyOf(mkey(G1, B)) \in DOMAIN messageCooldown
  /\ Present(voiceActive, G1, B)
  /\ saveTimer = NoTimer
  /\ pendingSaves = {}
  /\ DBmembers = <<>>
  /\ DBfields = {"members", "xp"}

----------------------------------------------------------------------------
(* Properties of voice activity (SpecVoice) *)

\* C5: on a tick, a member gains exactly VOICE_XP_PER_MIN (5) on the voice counter
\* and on the total iff it is in the presence set of its guild and its live voice
\* state is connected, not self-muted and not self-deafened; the entry of every
\* other member is unchanged by the tick (three ticks of such a member: +15, +15).
C5_TickAwards ==
  [][last'.op = "voiceTick" =>
       \A m \in Members :
         LET key == mkey(m[1], m[2])
             old == ensureXpEntry(DBxp, key)
             vs == liveVoice[m]
             eligible == /\ Present(voiceActive, m[1], m[2])
                         /\ vs.channel # NoChannel
                         /\ ~vs.selfMute
                         /\ ~vs.selfDeaf
         IN IF eligible
            THEN /\ key \in DOMAIN DBxp'
                 /\ DBxp'[key] = [xp |-> old.xp + 5, text |-> old.text, voice |-> old.voice + 5]
            ELSE /\ (key \in DOMAIN DBxp') = (key \in DOMAIN DBxp)
                 /\ key \in DOMAIN DBxp => DBxp'[key] = DBxp[key]
  ]_vars

\* three ticks have awarded a connected member, and the last one skipped another
\* member who is in the presence set
C5_ThreeTicks ==
  /\ last.op = "voiceTick"
  /\ Len(last.calls) = 1
  /\ last.calls[1].key = mkey(G1, B)
  /\ DBxp[mkey(G1, B)] = [xp |-> 15, text |-> 0, voice |-> 15]
  /\ Present(voiceActive, G1, A)
  /\ liveVoice[<<G1, A>>].selfDeaf

\* C6: a member is in the presence set of a guild iff the latest voice-state
\* notification for that member in that guild had a destination channel; adding a
\* member who is present already changes nothing; no event other than a voice-state
\* notification (no message, no tick, not even one that skips the member as not
\* connected) adds or removes a member.
C6_PresenceFollowsNotifications ==
  /\ [](\A m \in Members :
          Present(voiceActive, m[1], m[2]) <=> lastNotified[m] \notin {"never", NoChannel})
  /\ [][/\ last'.op # "voiceStateUpdate" => voiceActive' = voiceActive
        /\ (/\ last'.op = "voiceStateUpdate"
            /\ \E m \in Members : /\ last'.key = mkey(m[1], m[2])
                                  /\ Present(voiceActive, m[1], m[2])
                                  /\ lastNotified'[m] # NoChannel)
           => voiceActive' = voiceActive
     ]_vars

\* a tick has just skipped a member who is in the presence set but not connected
C6_TickSkipsDisconnected ==
  /\ last.op = "voiceTick"
  /\ Present(voiceActive, G1, A)
  /\ liveVoice[<<G1, A>>] = Disconnected
  /\ mkey(G1, A) \notin DOMAIN DBxp

----------------------------------------------------------------------------
(* Properties of crown reconciliation (SpecCrown) *)

\* the pass of the sweep has run to its end
PassDone == pass["sweep"].pc = "done"
ThePass == pass["sweep"]
LeaderOf(d) == IF d = "text" THEN ThePass.newTextId ELSE ThePass.newVoiceId

\* the members an announcement of the pass names for dimension d, one per announcement
AnnouncedFor(d) ==
  SelectSeq(ThePass.anns, LAMBDA a : a.kind = d \/ a.kind = "double")

\* the counter of every other entry of the guild is below that of the leader
UniqueTop(g, d) ==
  \A k \in DOMAIN DBxp :
    (StartsWith(k, g \o <<":">>) /\ k # mkey(g, LeaderOf(d)))
      => DBxp[k][d] < DBxp[mkey(g, LeaderOf(d))][d]

\* C7: when a pass runs for a dimension that nobody holds the marker of and that has
\* one member with the highest positive counter, that member holds the marker after
\* the pass, nobody else does, and exactly one announcement, naming that member, is
\* sent for the dimension; and in every pass an announcement for a dimension names
\* only a leader who did not hold the marker of the dimension when the pass started.
C7_AnnouncedOnlyWhenChanged ==
  (PassDone /\ ThePass.clean /\ ThePass.stable) =>
    \A d \in Dims :
      /\ (/\ LeaderOf(d) # Null
          /\ UniqueTop(ThePass.g, d)
          /\ \A u \in Users : <<d, u>> \notin ThePass.held)
         => /\ Holders(ThePass.g, CrownRole(d)) = {LeaderOf(d)}
            /\ Len(AnnouncedFor(d)) = 1
            /\ AnnouncedFor(d)[1].user = LeaderOf(d)
      /\ \A j \in 1..Len(AnnouncedFor(d)) :
           /\ AnnouncedFor(d)[j].user = LeaderOf(d)
           /\ <<d, AnnouncedFor(d)[j].user>> \notin ThePass.held

\* a member who held the text marker with another, earlier in the member order, is
\* announced as the new text leader
C7_HolderAnnounced ==
  /\ PassDone /\ ThePass.clean /\ ThePass.stable
  /\ {<<"text", A>>, <<"text", B>>} \subseteq ThePass.held
  /\ ThePass.prevTextId = A
  /\ ThePass.newTextId = B
  /\ ThePass.anns = <<[kind |-> "text", user |-> B]>>

\* what holds of C7, its first half: with no holder at the start and one member
\* with the highest positive counter, that member alone holds the marker and is
\* announced once
C7_FirstLeaderAnnouncedOnce ==
  (PassDone /\ ThePass.clean /\ ThePass.stable) =>
    \A d \in Dims :
      (/\ LeaderOf(d) # Null
       /\ UniqueTop(ThePass.g, d)
       /\ \A u \in Users : <<d, u>> \notin ThePass.held)
      => /\ Holders(ThePass.g, CrownRole(d)) = {LeaderOf(d)}
         /\ Len(AnnouncedFor(d)) = 1
         /\ AnnouncedFor(d)[1].user = LeaderOf(d)

\* A: text 50, B: text 30, nobody held the text marker: A holds it, announced once
C7_FiftyThirty ==
  /\ PassDone /\ ThePass.clean /\ ThePass.stable
  /\ {mkey(G1, A), mkey(G1, B)} \subseteq DOMAIN DBxp
  /\ DBxp[mkey(G1, A)].text = 50
  /\ DBxp[mkey(G1, B)].text = 30
  /\ \A u \in Users : <<"text", u>> \notin ThePass.held
  /\ Holders(G1, TEXT_CHAMP_ROLE_NAME) = {A}
  /\ AnnouncedFor("text") = <<[kind |-> "text", user |-> A]>>

\* C8: a pass that runs with the ledger and the roles unchanged since an earlier
\* pass that completed without a failure issues no roles.add, no roles.remove and no
\* setNickname, and sends no announcement.
C8_SecondPassIssuesNothing ==
  (PassDone /\ ThePass.clean /\ ThePass.repeat) =>
    /\ ThePass.granted = {}
    /\ ThePass.revoked = {}
    /\ ThePass.renamed = {}
    /\ ThePass.anns = <<>>

\* a second pass over unchanged state has renamed a member: the name the first pass
\* cut at NICK_MAX ends in a badge, which the second pass strips
C8_SecondPassRenames ==
  /\ PassDone /\ ThePass.clean /\ ThePass.repeat
  /\ ThePass.renamed = {<<"text", A>>}
  /\ ThePass.granted = {}
  /\ ThePass.revoked = {}
  /\ Len(nick[<<G1, A>>]) < NICK_MAX

\* what holds of C8: the second pass grants, revokes and announces nothing
C8_SecondPassKeepsRoles ==
  (PassDone /\ ThePass.clean /\ ThePass.repeat) =>
    /\ ThePass.granted = {}
    /\ ThePass.revoked = {}
    /\ ThePass.anns = <<>>

C10_HoldersAreTheLeader ==
  (PassDone /\ ThePass.clean /\ ThePass.stable) =>
    \A d \in Dims :
      LeaderOf(d) # Null => Holders(ThePass.g, CrownRole(d)) = {LeaderOf(d)}

\* several members held the text marker, set from outside; only the leader holds it now
C10_SeveralHolders ==
  /\ PassDone /\ ThePass.clean /\ ThePass.stable
  /\ {<<"text", A>>, <<"text", B>>} \subseteq ThePass.held
  /\ ThePass.newTextId = B
  /\ mkey(G1, B) \in DOMAIN DBxp
  /\ DBxp[mkey(G1, B)].text > 0
  /\ Holders(G1, TEXT_CHAMP_ROLE_NAME) = {B}

\* C11: a pass never grants the marker of a dimension to a member whose counter for
\* the dimension is 0: roles.add is issued only for a member whose ledger counter
\* for the dimension was > 0 when the leader was computed; a pass right after
\* /resetxp grants nothing.
C11_GrantOnlyForPositive ==
  ThePass.stable =>
    \A d \in Dims, u \in Users :
      <<d, u>> \in ThePass.granted
        => /\ u = LeaderOf(d)
           /\ mkey(ThePass.g, u) \in DOMAIN DBxp
           /\ DBxp[mkey(ThePass.g, u)][d] > 0

\* a pass has run to its end over a ledger that /resetxp has zeroed: nothing granted
C11_PassAfterReset ==
  /\ PassDone /\ ThePass.clean /\ ThePass.stable
  /\ {mkey(G1, A), mkey(G1, B)} \subseteq DOMAIN DBxp
  /\ \A k \in DOMAIN DBxp : DBxp[k] = [xp |-> 0, text |-> 0, voice |-> 0]
  /\ ThePass.newTextId = Null /\ ThePass.newVoiceId = Null
  /\ ThePass.granted = {}
  /\ \A u \in Users : roles[<<G1, u>>] = {}

----------------------------------------------------------------------------
(* Properties of topBy (SpecTop) *)

\* topBy has just been applied
TopCalled == last.op = "topBy"

\* the positions in Object.entries order of the entries of guild g
GuildEntries(g) == {i \in 1..Len(xpOrder) : StartsWith(xpOrder[i], g \o <<":">>)}

\* the counter of dimension d of the entry at position i (0 when the entry has none)
CounterAt(i, d) == IF d \in DOMAIN DBxp[xpOrder[i]] THEN DBxp[xpOrder[i]][d] ELSE 0

\* C12: topBy returns none for a guild and a dimension in which the counter of
\* every member is 0, even if the guild has ledger entries.
C12_NoneWhenAllZero ==
  (/\ TopCalled
   /\ GuildEntries(last.ret.guildId) # {}
   /\ \A i \in GuildEntries(last.ret.guildId) : CounterAt(i, last.ret.key) = 0)
  => ~last.ret.top.found

\* C12 as the code has it: for a guild with entries whose counters for the
\* dimension are all 0, topBy returns the first entry of the guild, with counter 0;
\* it is updateCrownRoles that takes such a top entry for no leader. For a guild
\* without entries topBy returns none.
C12_ZeroTopIsNoLeader ==
  TopCalled =>
    LET g == last.ret.guildId
        d == last.ret.key
    IN /\ GuildEntries(g) = {} => (~last.ret.top.found /\ last.ret.leader = Null)
       /\ (/\ GuildEntries(g) # {}
           /\ \A i \in GuildEntries(g) : CounterAt(i, d) = 0)
          => /\ last.ret.top.found
             /\ last.ret.top.xp = 0
             /\ \E i \in GuildEntries(g) :
                  /\ \A j \in GuildEntries(g) : i <= j
                  /\ last.ret.top.userId = SplitSecond(xpOrder[i])
             /\ last.ret.leader = Null

\* topBy was applied to a guild with two entries, both with counter 0
C12_TwoZeroEntries ==
  /\ TopCalled
  /\ last.ret.guildId = G1
  /\ last.ret.key = "text"
  /\ Cardinality(GuildEntries(G1)) = 2
  /\ \A i \in GuildEntries(G1) : CounterAt(i, "text") = 0
  /\ last.ret.top.found
  /\ last.ret.leader = Null

\* C13: for a guild with an entry whose counter for the dimension is positive, topBy
\* returns a member whose counter equals the maximum over the entries of the guild;
\* among the members tied at the maximum, the first in insertion order.
C13_FirstMaximum ==
  (/\ TopCalled
   /\ \E i \in GuildEntries(last.ret.guildId) : CounterAt(i, last.ret.key) > 0)
  => LET g == last.ret.guildId
         d == last.ret.key
     IN /\ last.ret.top.found
        /\ \A j \in GuildEntries(g) : CounterAt(j, d) <= last.ret.top.xp
        /\ \E i \in GuildEntries(g) :
             /\ CounterAt(i, d) = last.ret.top.xp
             /\ \A j \in GuildEntries(g) : CounterAt(j, d) = last.ret.top.xp => i <= j
             /\ last.ret.top.userId = SplitSecond(xpOrder[i])

\* two members are tied at the maximum, B inserted before A: topBy returns B
C13_TieFirstInserted ==
  /\ TopCalled
  /\ last.ret.guildId = G1
  /\ last.ret.key = "text"
  /\ xpOrder = <<mkey(G2, A), mkey(G1, B), mkey(G1, A)>>
  /\ DOMAIN DBxp = TopKeys
  /\ DBxp[mkey(G1, A)] = [xp |-> 30, text |-> 30, voice |-> 0]
  /\ DBxp[mkey(G1, B)] = [xp |-> 60, text |-> 30, voice |-> 30]
  /\ DBxp[mkey(G2, A)] = [xp |-> 50, text |-> 50, voice |-> 0]
  /\ last.ret.top = [found |-> TRUE, userId |-> B, xp |-> 30]

----------------------------------------------------------------------------
(* Properties of the announcements of a pass (SpecCrown) *)

\* the pass found the leader of dimension d to differ from the holder it read
ChangedIn(d) ==
  IF d = "text"
  THEN ThePass.newTextId # Null /\ ThePass.newTextId # ThePass.prevTextId
  ELSE ThePass.newVoiceId # Null /\ ThePass.newVoiceId # ThePass.prevVoiceId

\* C14: when in one pass the text leader and the voice leader both changed and are
\* the same member, the pass emits exactly one announcement, the combined one, and
\* neither single announcement; when only one dimension changed, the pass emits only
\* the announcement of that dimension. (A change is what the pass takes for one: the
\* leader differs from the holder it read first. An announcement whose member cannot
\* be fetched is not sent.)
C14_DoubleOrSingle ==
  PassDone =>
    LET same == ThePass.newTextId = ThePass.newVoiceId
        sent == ThePass.anns
        fetched == ThePass.clean
    IN /\ (ChangedIn("text") /\ ChangedIn("voice") /\ same)
            => /\ sent \in {<<>>, <<[kind |-> "double", user |-> ThePass.newTextId]>>}
               /\ fetched => sent # <<>>
       /\ (ChangedIn("text") /\ ~ChangedIn("voice"))
            => /\ sent \in {<<>>, <<[kind |-> "text", user |-> ThePass.newTextId]>>}
               /\ fetched => sent # <<>>
       /\ (ChangedIn("voice") /\ ~ChangedIn("text"))
            => /\ sent \in {<<>>, <<[kind |-> "voice", user |-> ThePass.newVoiceId]>>}
               /\ fetched => sent # <<>>
       /\ (~ChangedIn("voice") /\ ~ChangedIn("text")) => sent = <<>>

\* A leads both dimensions and held neither marker: one double-crown announcement
C14_DoubleCrown ==
  /\ PassDone
  /\ ThePass.prevTextId = Null /\ ThePass.prevVoiceId = Null
  /\ ThePass.newTextId = A /\ ThePass.newVoiceId = A
  /\ ThePass.anns = <<[kind |-> "double", user |-> A]>>
  /\ Len(last.sends) = 1

----------------------------------------------------------------------------
(* The order of the calls of a pass (SpecCrown) *)

\* C15: within a pass, for each dimension every revoke call on a previous holder is
\* issued before the grant call on the new leader, and the text dimension is
\* completed before the voice dimension starts: a revoke or a grant for a dimension
\* is issued only while the pass is at that dimension, a revoke only while no grant
\* of that dimension has been issued, and the pass never returns from voice to text.
C15_RevokeThenGrant ==
  [][/\ \A d \in Dims, u \in Users :
          /\ (<<d, u>> \in pass'["sweep"].revoked \ pass["sweep"].revoked)
               => /\ pass["sweep"].pc = d
                  /\ \A v \in Users : <<d, v>> \notin pass["sweep"].granted
          /\ (<<d, u>> \in pass'["sweep"].granted \ pass["sweep"].granted)
               => pass["sweep"].pc = d
     /\ pass["sweep"].pc = "voice" => pass'["sweep"].pc \in {"voice", "announce"}
     /\ pass["sweep"].pc = "text" => pass'["sweep"].pc \in {"text", "voice"}
    ]_vars

\* a pass revoked the text marker from B and granted it to A, then did the same for
\* the voice marker
C15_RevokedThenGranted ==
  /\ PassDone
  /\ ThePass.revoked = {<<"text", B>>, <<"voice", B>>}
  /\ ThePass.granted = {<<"text", A>>, <<"voice", A>>}
  /\ \A d \in Dims : CrownRole(d) \in roles[<<G1, A>>] /\ CrownRole(d) \notin roles[<<G1, B>>]

----------------------------------------------------------------------------
(* Passes of several callers (SpecOverlap) *)

\* caller p is inside updateCrownRoles
Running(p) == pass[p].pc \in {"ensure", "text", "voice", "announce"}

\* C16: passes for the same guild never overlap: a pass started by the hourly sweep,
\* by the startup pass or by /refreshcrowns runs to completion before another pass
\* for that guild begins, and a change of leader is never announced twice.
C16_PassesNeverOverlap ==
  /\ ~(/\ Running("sweep") /\ Running("cmd")
       /\ pass["sweep"].g = pass["cmd"].g)
  /\ ~(/\ pass["sweep"].pc = "done" /\ pass["cmd"].pc = "done"
       /\ pass["sweep"].g = pass["cmd"].g
       /\ pass["sweep"].anns # <<>>
       /\ pass["sweep"].anns = pass["cmd"].anns)

\* the sweep and /refreshcrowns both read the roles before either granted the text
\* marker, and both announced A as the new text leader
C16_AnnouncedTwice ==
  /\ pass["sweep"].pc = "done" /\ pass["cmd"].pc = "done"
  /\ pass["sweep"].g = G1 /\ pass["cmd"].g = G1
  /\ pass["sweep"].anns = <<[kind |-> "text", user |-> A]>>
  /\ pass["cmd"].anns = <<[kind |-> "text", user |-> A]>>
  /\ pass["sweep"].prevTextId = Null /\ pass["cmd"].prevTextId = Null

----------------------------------------------------------------------------
(* /resetxp (SpecReset) *)

\* the members of guild g holding a crown role
CrownHolders(g) ==
  {u \in Users : roles[<<g, u>>] \cap {TEXT_CHAMP_ROLE_NAME, VOICE_CHAMP_ROLE_NAME} # {}}

\* C17: a confirmed /resetxp for guild g sets xp, text and voice to 0 in place for
\* every entry of g (no entry is deleted, the entries of other guilds are unchanged),
\* removes both crown roles from every member of g that holds them and composes
\* every nickname again, so that when the command completes without a failed
\* platform call no member of g holds a crown role.
C17_ResetLeavesNoHolder ==
  [][/\ (last'.op = "resetxp" /\ pass["cmd"].pc = "idle" /\ pass'["cmd"].pc = "reset_ensure")
          => /\ DOMAIN DBxp' = DOMAIN DBxp
             /\ \A k \in DOMAIN DBxp :
                  IF StartsWith(k, pass'["cmd"].g \o <<":">>)
                  THEN DBxp'[k] = [xp |-> 0, text |-> 0, voice |-> 0]
                  ELSE DBxp'[k] = DBxp[k]
     /\ (last'.op = "resetxp" /\ last'.reply # NoReply /\ last'.reply.kind = "reset"
           /\ ~last'.failed)
          => CrownHolders(pass["cmd"].g)' = {}
    ]_vars

\* /resetxp has completed without a failed call, every counter of the guild is 0,
\* and A holds the text crown: a pass that had read the ledger before the reset
\* granted it while the reset was in its loop over the members
C17_HolderAfterReset ==
  /\ last.op = "resetxp" /\ last.reply # NoReply /\ last.reply.kind = "reset"
  /\ ~last.failed
  /\ mkey(G1, A) \in DOMAIN DBxp
  /\ DBxp[mkey(G1, A)] = [xp |-> 0, text |-> 0, voice |-> 0]
  /\ TEXT_CHAMP_ROLE_NAME \in roles[<<G1, A>>]

\* /resetxp with no other handler in between (SpecCrown): when it completes
\* without a failed call every counter of the guild is 0 and nobody holds a crown
C17_AloneLeavesNoHolder ==
  (last.op = "resetxp" /\ last.reply.kind = "reset" /\ ~last.failed)
    => /\ CrownHolders(G1) = {}
       /\ \A k \in DOMAIN DBxp :
            StartsWith(k, G1 \o <<":">>) => DBxp[k] = [xp |-> 0, text |-> 0, voice |-> 0]

----------------------------------------------------------------------------
(* Refused commands (SpecAdmin) *)

\* C18: a refused command of an administrator changes no state and is answered by
\* a private reply: /resetxp with confirm = false or without Manage Server leaves
\* the ledger and the roles as they are, and /temprole with a duration that cannot
\* be read, a duration below 10 s, or a caller without Manage Roles grants no role
\* and sets no timer.
C18_RefusedChangesNothing ==
  [][/\ (last'.op = "resetxp" /\ last'.ret # Null
           /\ (~last'.ret.allowed \/ ~last'.ret.confirm))
          => /\ UNCHANGED progVars
             /\ last'.reply # NoReply /\ last'.reply.ephemeral
     /\ (last'.op = "temprole"
           /\ \/ ~ms(last'.ret.duration).ok
              \/ ms(last'.ret.duration).value < 10000
              \/ ~last'.ret.allowed)
          => /\ UNCHANGED progVars
             /\ last'.reply # NoReply /\ last'.reply.ephemeral
             /\ last'.reply.kind \in {"invalid", "denied"}
    ]_vars

\* /temprole for 9 s was refused while B held the role with its timer pending and
\* the ledger had an entry
C18_NineSecondsRefused ==
  /\ last.op = "temprole"
  /\ last.ret.duration = <<"9", "s">> /\ last.ret.allowed /\ last.ret.user = A
  /\ last.reply.kind = "invalid"
  /\ TEMP_ROLE \in roles[<<G1, B>>]
  /\ TEMP_ROLE \notin roles[<<G1, A>>]
  /\ DOMAIN tempRoleTimers = {<<G1, B, TEMP_ROLE>>}
  /\ DOMAIN DBxp # {}

----------------------------------------------------------------------------
(* Properties of the nickname (SpecNick) *)

\* setNickRoleBadge has just been applied
NickCalled == last.op = "setNickRoleBadge"

\* no known badge occurs in name
GlyphFree(name) ==
  \A i \in 1..Len(name), b \in KnownBadges :
    ~(i + Len(b) - 1 <= Len(name) /\ SubSeq(name, i, i + Len(b) - 1) = b)

\* C19: the composition of the nickname is idempotent: for any display name and any
\* fixed role set, composing from the result of a composition yields the same
\* string, so that a second setNickRoleBadge with the same roles issues no rename.
C19_ComposeIdempotent ==
  NickCalled =>
    /\ finalNick(last.ret.finalNick, last.ret.roleSet) = last.ret.finalNick
    /\ (~last.failed => ~IssuesRename(nick[<<G1, A>>], last.ret.roleSet))

\* a name of 29 letters, a space and two more letters, held with the text crown, was
\* composed and stored; composing once more gives another string
C19_SecondComposeDiffers ==
  /\ NickCalled /\ ~last.failed
  /\ last.ret.current = Letters(NICK_MAX - 3) \o <<" ", "y", "y">>
  /\ last.ret.roleSet = {TEXT_CHAMP_ROLE_NAME}
  /\ roles[<<G1, A>>] = {TEXT_CHAMP_ROLE_NAME}
  /\ nick[<<G1, A>>] = TEXT_CROWN \o <<" ">> \o Letters(NICK_MAX - 3) \o <<" ">>
  /\ finalNick(nick[<<G1, A>>], roles[<<G1, A>>]) = TEXT_CROWN \o <<" ">> \o Letters(NICK_MAX - 3)

\* C20: for any base name without badge glyphs and any badge set, stripKnownBadges
\* of the nickname composed from the base and the badges is the base.
C20_StripOfComposeIsBase ==
  (NickCalled /\ GlyphFree(last.ret.current))
    => stripKnownBadges(last.ret.finalNick) = last.ret.current

\* C20 as the code has it: the round trip holds for a base name without badge
\* glyphs that is not empty, has no space at either end, and is short enough for
\* the prefix and the base to fit into the 32 places of a nickname.
C20_StripOfComposeIsBaseIfFits ==
  (/\ NickCalled
   /\ GlyphFree(last.ret.current)
   /\ last.ret.current # <<>>
   /\ Trim(last.ret.current) = last.ret.current
   /\ Len(prefixOf(last.ret.roleSet)) + Len(last.ret.current) <= NICK_MAX)
    => stripKnownBadges(last.ret.finalNick) = last.ret.current

\* a base of 24 letters with the three badges in front fills the 32 places, and the
\* base comes back
C20_LongestFit ==
  /\ NickCalled
  /\ last.ret.current = Letters(NICK_MAX - 8)
  /\ last.ret.roleSet = {NEWBIE_ROLE_NAME, TEXT_CHAMP_ROLE_NAME, VOICE_CHAMP_ROLE_NAME}
  /\ Len(last.ret.finalNick) = NICK_MAX
  /\ last.ret.finalNick = NEWBIE_BADGE \o <<" ">> \o TEXT_CROWN \o <<" ">> \o VOICE_CROWN
                            \o <<" ">> \o Letters(NICK_MAX - 8)
  /\ stripKnownBadges(last.ret.finalNick) = Letters(NICK_MAX - 8)

\* the glyphs of the roles in roleSet, each followed by a space, in the order of
\* the claim: onboarding or else graduated, text leader, voice leader
GlyphsOf(roleSet) ==
  (IF NEWBIE_ROLE_NAME \in roleSet THEN NEWBIE_BADGE \o <<" ">>
   ELSE IF NPC_ROLE_NAME \in roleSet THEN NPC_BADGE \o <<" ">> ELSE <<>>)
  \o (IF TEXT_CHAMP_ROLE_NAME \in roleSet THEN TEXT_CROWN \o <<" ">> ELSE <<>>)
  \o (IF VOICE_CHAMP_ROLE_NAME \in roleSet THEN VOICE_CROWN \o <<" ">> ELSE <<>>)

BadgeAtAnEnd(s) ==
  \E b \in KnownBadges : StartsWith(s, b \o <<" ">>) \/ EndsWith(s, <<" ">> \o b)

\* C23: stripKnownBadges removes every run of known badges (each followed by one
\* space at the front, each preceded by one space at the back) from both ends of a
\* display name, in whatever order, and returns the base name; applied to its own
\* result it changes nothing.
C23_StripIsComplete ==
  NickCalled =>
    /\ ~BadgeAtAnEnd(last.ret.base)
    /\ stripKnownBadges(last.ret.base) = last.ret.base

\* the name has two spaces after the first badge: the result of stripKnownBadges
\* still starts with a badge, which a second application removes
C23_SecondStripChanges ==
  /\ NickCalled
  /\ last.ret.current = NEWBIE_BADGE \o <<" ", " ">> \o TEXT_CROWN \o <<" ", "A">>
  /\ last.ret.base = TEXT_CROWN \o <<" ", "A">>
  /\ stripKnownBadges(last.ret.base) = <<"A">>

\* badges typed by hand in another order at both ends are all removed (SpecNick)
C23_ReorderedRemoved ==
  (NickCalled
     /\ last.ret.current = VOICE_CROWN \o <<" ">> \o NPC_BADGE \o <<" ", "A", " ">> \o NEWBIE_BADGE)
    => last.ret.base = <<"A">>

\* C24: the rename call is issued iff the composed nickname differs from the
\* current display name of the member; when they are the same no call is made.
C24_RenameIffDifferent ==
  NickCalled =>
    /\ (last.calls # <<>>) = (last.ret.finalNick # last.ret.current)
    /\ last.calls # <<>>
         => last.calls = <<[op |-> "setNickname", nick |-> last.ret.finalNick]>>

\* the name already is what the roles ask for: no call
C24_NoCall ==
  /\ NickCalled
  /\ last.ret.current = NEWBIE_BADGE \o <<" ", "A">>
  /\ last.ret.roleSet = {NEWBIE_ROLE_NAME}
  /\ last.ret.finalNick = last.ret.current
  /\ last.calls = <<>>
  /\ nick[<<G1, A>>] = last.ret.current

----------------------------------------------------------------------------
(* Properties of the level curve (SpecLevel) *)

\* /rank has just answered: its level and the threshold of the next level
Ranked == last.op = "rank"
RankLevel == last.reply.data[1]
RankXp == last.reply.data[2]
RankNext == last.reply.data[3]

\* C25: the two functions of the curve are inverse at the boundaries: for every
\* level L >= 1, calcLevel(threshold(L)) >= L and calcLevel(threshold(L) - 1) < L,
\* the threshold being totalXpForLevel. (Checked for the levels up to the one after
\* the level of the member.)
C25_InverseAtBoundary ==
  Ranked =>
    /\ RankNext = totalXpForLevel(RankLevel + 1)
    /\ \A L \in 1..(RankLevel + 1) :
         /\ calcLevel(totalXpForLevel(L)) >= L
         /\ calcLevel(totalXpForLevel(L) - 1) < L

\* a member exactly at the threshold of level 2 (225) is at level 2, with 382 ahead
C25_AtSecondThreshold ==
  /\ Ranked
  /\ RankXp = 225
  /\ RankLevel = 2
  /\ RankNext = 382
  /\ calcLevel(224) = 1

\* C26: calcLevel is monotonic: for all 0 <= x <= y, calcLevel(x) <= calcLevel(y);
\* hence a delta of 0 or more applied by addXP never lowers the level.
C26_Monotonic ==
  /\ Ranked => \A x \in 0..RankXp : calcLevel(x) <= RankLevel
  /\ (last.op = "givexp" /\ last.calls # <<>> /\ last.calls[1].amount >= 0)
       => /\ last.calls[1].out.newLevel >= calcLevel(last.calls[1].out.before)
          /\ \A x \in 0..last.calls[1].out.after : calcLevel(x) <= last.calls[1].out.newLevel

\* 99 XP were given to a member with 501: level 3 before, level 4 (from 577) after
C26_GrantRaisesLevel ==
  /\ last.op = "givexp" /\ last.calls # <<>>
  /\ last.calls[1].amount = 99
  /\ last.calls[1].out.before = 501
  /\ last.calls[1].out.after = 600
  /\ calcLevel(501) = 3
  /\ last.calls[1].out.newLevel = 4

\* C27: totalXpForLevel(0) = 0, and the threshold is strictly increasing:
\* totalXpForLevel(L) > totalXpForLevel(L - 1) for every L >= 1.
C27_StrictlyIncreasing ==
  Ranked =>
    /\ totalXpForLevel(0) = 0
    /\ \A L \in 1..(RankLevel + 1) : totalXpForLevel(L) > totalXpForLevel(L - 1)
    /\ RankNext > totalXpForLevel(RankLevel)

\* a member at level 0: the threshold ahead is 100, above the threshold 0 of level 0
C27_FirstThreshold ==
  /\ Ranked
  /\ RankXp = 99
  /\ RankLevel = 0
  /\ RankNext = 100
  /\ totalXpForLevel(0) = 0

----------------------------------------------------------------------------
(* Properties of addXP applied in sequence (SpecDeltas) *)

RECURSIVE SumSeq(_)
SumSeq(q) == IF q = <<>> THEN 0 ELSE q[1] + SumSeq(Tail(q))

\* the lowest sum of a leading part of q (the empty part included, so at most 0)
LowestRunningSum(q) ==
  LET sums == {SumSeq(SubSeq(q, 1, i)) : i \in 0..Len(q)}
  IN CHOOSE m \in sums : \A n \in sums : m <= n

DeltaTotal == DBxp[mkey(G1, A)].xp

\* C29 as stated: any sequence of addXP deltas whose sum is zero, applied to a fresh
\* entry in any order, leaves the total at 0 after the last delta, and the total is
\* never negative at any step.
C29_ZeroSumLeavesZero ==
  last.op = "addXP" =>
    /\ DeltaTotal >= 0
    /\ SumSeq(last.ret.deltas) = 0 => DeltaTotal = 0

\* C29 as the code has it: the total is never negative at any step, and after a
\* sequence of deltas whose sum is zero the total is the amount by which the running
\* sum fell below zero at its lowest; it is 0 exactly when no running sum is negative.
C29_ZeroSumLeavesClampedLoss ==
  last.op = "addXP" =>
    /\ DeltaTotal >= 0
    /\ last.calls[1].out.after = DeltaTotal
    /\ SumSeq(last.ret.deltas) = 0 =>
         /\ DeltaTotal = 0 - LowestRunningSum(last.ret.deltas)
         /\ DeltaTotal = 0 <=> \A i \in 1..Len(last.ret.deltas) :
                                  SumSeq(SubSeq(last.ret.deltas, 1, i)) >= 0

\* -20, +5, +15 sum to zero; the first delta is clamped away and the total ends at 20
C29_ClampedThenRaised ==
  /\ last.op = "addXP"
  /\ last.ret.deltas = <<-20, 5, 15>>
  /\ DeltaTotal = 20

\* +5, +15, -20 sum to zero with no negative running sum; the total ends at 0 (supporting)
C29_RaisedThenLowered ==
  /\ last.op = "addXP"
  /\ last.ret.deltas = <<5, 15, -20>>
  /\ DeltaTotal = 0

----------------------------------------------------------------------------
(* Properties of the ledger in its steady state (SpecSteady) *)

\* C30: starting from an empty ledger, after any sequence of awarded messages (+15
\* text), awarded presence ticks (+5 voice), /givexp grants of 0 or more and
\* /resetxp, every ledger entry satisfies xp = text + voice.
C30_TotalIsSumOfCounters ==
  \A k \in DOMAIN DBxp : DBxp[k].xp = DBxp[k].text + DBxp[k].voice

\* a grant of 7 to the voice counter of a member who has been awarded one message
\* and one tick: 15 text, 12 voice, 27 in total
C30_MessageTickAndGrant ==
  /\ last.op = "givexp" /\ last.calls # <<>>
  /\ last.calls[1].amount = 7 /\ last.calls[1].source = "voice"
  /\ mkey(G1, A) \in DOMAIN DBxp
  /\ DBxp[mkey(G1, A)] = [xp |-> 27, text |-> 15, voice |-> 12]

\* after /resetxp the entries are still there, every counter at 0 (supporting)
C30_ResetEntries ==
  /\ last.op = "resetxp"
  /\ mkey(G1, A) \in DOMAIN DBxp
  /\ DBxp[mkey(G1, A)] = [xp |-> 0, text |-> 0, voice |-> 0]

----------------------------------------------------------------------------
(* Properties of the debounced store (SpecSave) *)

\* the step is a call of addXP
AddXPStep == last'.calls # <<>>
\* the step is the write of the timer of saveData
FlushStep == last'.op = "flush"

\* C31: every ledger mutation by addXP schedules a flush; at any time at most one
\* flush timer is pending (a new schedule cancels the previous one); and once the
\* mutations stop, one write of the complete current ledger and member map is made
\* one debounce interval (500 ms) after the last mutation: the write is made not
\* before the timer set by the last mutation is due, it writes all of DB, no timer
\* is left after it, and a pending timer always leads to that write.
C31_DebouncedFlush ==
  /\ [](Cardinality(pendingSaves) <= 1)
  /\ [][/\ AddXPStep => pendingSaves' = {now + SAVE_DEBOUNCE_MS}
        /\ FlushStep => /\ pendingSaves = {saveTimer}
                        /\ now >= saveTimer
                        /\ disk' = [members |-> DBmembers, xp |-> DBxp]
                        /\ pendingSaves' = {}]_vars
  /\ (pendingSaves # {}) ~> (pendingSaves = {} /\ disk = [members |-> DBmembers, xp |-> DBxp])

\* two grants 200 ms apart and a join were written together by one write
C31_OneWriteForThree ==
  /\ last.op = "flush"
  /\ now = StartTime + 700
  /\ mkey(G1, A) \in DOMAIN DBxp
  /\ disk.xp = DBxp /\ DBxp[mkey(G1, A)].voice = 10
  /\ mkey(G1, A) \in DOMAIN disk.members

----------------------------------------------------------------------------
(* Properties of the debounced store at a crash (SpecCrash) *)

\* the ledger entry of key is on disk as it is in DB
Written(key) ==
  /\ disk # <<>>
  /\ key \in DOMAIN disk.xp
  /\ disk.xp[key] = DBxp[key]

\* C32: if the process crashes at any instant, the only ledger updates missing from
\* durable storage are those made within one debounce window (500 ms) before the
\* crash: an update older than one debounce window has always been written,
\* whatever updates followed it. (The update looked at is the one message of B.)
C32_OldUpdatesWritten ==
  \A cdKey \in DOMAIN lastAward :
    now - lastAward[cdKey] > SAVE_DEBOUNCE_MS => Written(mkey(G1, B))

\* the message of B is 600 ms old and not on disk: two grants to A, 200 and 400 ms
\* after it, have each set the timer anew
C32_OldUpdateUnwritten ==
  /\ cdKeyOf(mkey(G1, B)) \in DOMAIN lastAward
  /\ now - lastAward[cdKeyOf(mkey(G1, B))] = 600
  /\ ~Written(mkey(G1, B))
  /\ pendingSaves = {now + 300}

\* what the store does keep: whenever no timer is pending, all of DB is on disk
\* (or nothing was ever changed); a pending timer is due within 500 ms (supporting)
C32_WrittenWhenIdle ==
  /\ pendingSaves = {} => disk = Document \/ (disk = <<>> /\ DBxp = <<>> /\ DBmembers = <<>>)
  /\ \A t \in pendingSaves : t <= now + SAVE_DEBOUNCE_MS

----------------------------------------------------------------------------
(* Properties of startup (SpecLoad) *)

\* the data file is missing or malformed: not JSON text, or not of the shape {members, xp}
BadFile(file) == file.kind # "json" \/ file.fields # AllFields

\* C33: startup never fails on bad persisted state: if the data file is missing or
\* malformed (unparsable, or parsable but not of the shape {members, xp}), the
\* store falls back to an empty ledger and member map, and the joins, addXP calls,
\* rank reads and reconciliations that follow run without error.
C33_StartupFallsBack ==
  /\ (last.op = "start" /\ BadFile(disk))
       => DBfields = AllFields /\ DBxp = <<>> /\ DBmembers = <<>>
  /\ ~last.threw

\* the data file holds {}: the first message ends in a TypeError, nothing is awarded
C33_EmptyObjectThrows ==
  /\ disk.kind = "json" /\ disk.fields = {}
  /\ last.op = "messageCreate" /\ last.threw
  /\ DBxp = <<>>

\* what the code does keep: with a file that is missing or is not JSON text, the
\* store is the empty ledger and member map at start and no handler throws (supporting)
C33_UnparsableFallsBack ==
  disk.kind # "json" =>
    /\ DBfields = AllFields
    /\ last.op = "start" => DBxp = <<>> /\ DBmembers = <<>>
    /\ ~last.threw

----------------------------------------------------------------------------
(* Properties of onboarding (SpecOnboard) *)

\* promoteIfDue has just run over guild G1
Swept == last.op = "promoteIfDue"
\* the record of u had a newbieSince at least NEWBIE_DURATION_MS old when the sweep ran
WasDue(u) ==
  /\ mkey(G1, u) \in DOMAIN last.ret.members
  /\ last.ret.members[mkey(G1, u)].newbieSince # NullTime
  /\ last.ret.at - last.ret.members[mkey(G1, u)].newbieSince >= NEWBIE_DURATION_MS
\* the sweep tried to promote u: both roles exist, u held the onboarding role, u was due
WasTried(u) ==
  /\ {NEWBIE_ROLE_NAME, NPC_ROLE_NAME} \subseteq last.ret.guildRoles
  /\ NEWBIE_ROLE_NAME \in last.ret.roles[<<G1, u>>]
  /\ WasDue(u)
\* u stands promoted: no onboarding marker, the graduated marker, newbieSince null
IsPromoted(u) ==
  /\ NEWBIE_ROLE_NAME \notin roles[<<G1, u>>]
  /\ NPC_ROLE_NAME \in roles[<<G1, u>>]
  /\ mkey(G1, u) \in DOMAIN DBmembers
  /\ DBmembers[mkey(G1, u)].newbieSince = NullTime
\* the sweep has promoted u: u stands promoted and its newbieSince was not null before
PromotedNow(u) ==
  /\ IsPromoted(u)
  /\ mkey(G1, u) \in DOMAIN last.ret.members
  /\ last.ret.members[mkey(G1, u)].newbieSince # NullTime
\* the sweep left u as it was
Untouched(u) ==
  /\ roles[<<G1, u>>] = last.ret.roles[<<G1, u>>]
  /\ mkey(G1, u) \in DOMAIN DBmembers => DBmembers[mkey(G1, u)] = last.ret.members[mkey(G1, u)]

\* C34 as stated: newbieSince is the sole input to the due-check of the sweep: in a
\* sweep a member is promoted (onboarding marker removed, graduated marker added,
\* newbieSince set to null) iff its newbieSince is non-null and at least
\* NEWBIE_DURATION_MS old at sweep time; newbieSince is set at join.
C34_PromotedIffDue ==
  /\ Swept => \A u \in Users : PromotedNow(u) <=> WasDue(u)
  /\ last.op = "guildMemberAdd" => DBmembers[last.key].newbieSince = now

\* C34 as the code has it: the sweep tries to promote a member iff both roles exist
\* in the guild, the member holds the onboarding role, and its newbieSince is
\* non-null and at least NEWBIE_DURATION_MS old at sweep time. For such a member
\* newbieSince is set to null, the onboarding role is removed unless that call
\* fails and the graduated role is added unless that call fails; any other member
\* is left as it was. newbieSince is set to the time of the join at join.
C34_TriedIffDueAndHolding ==
  /\ Swept =>
       \A u \in Users :
         /\ u \in last.ret.promoted <=> WasTried(u)
         /\ WasTried(u) =>
              /\ DBmembers[mkey(G1, u)].newbieSince = NullTime
              /\ u \notin last.ret.failRemove => NEWBIE_ROLE_NAME \notin roles[<<G1, u>>]
              /\ u \notin last.ret.failAdd => NPC_ROLE_NAME \in roles[<<G1, u>>]
         /\ ~WasTried(u) => Untouched(u)
  /\ last.op = "guildMemberAdd" => DBmembers[last.key].newbieSince = now

\* A joined at the start and the sweep runs exactly one onboarding period later: A is
\* promoted; B, due as well but without the onboarding role, is left as it was
C34_PromotedAtFourteenDays ==
  /\ Swept
  /\ last.ret.at = StartTime + NEWBIE_DURATION_MS
  /\ WasTried(A) /\ PromotedNow(A)
  /\ WasDue(B) /\ ~WasTried(B) /\ ~IsPromoted(B)

----------------------------------------------------------------------------
(* Properties of a pass after a failure (SpecCrown) *)

\* every holder the pass found that is not the leader of a dimension with a leader
\* was handed to roles.remove
AllRevokesIssued ==
  \A d \in Dims, u \in Users :
    (LeaderOf(d) # Null /\ <<d, u>> \in ThePass.held /\ u # LeaderOf(d))
      => <<d, u>> \in ThePass.revoked

----------------------------------------------------------------------------
(* Properties of the timers of /temprole (SpecAdmin) *)

TimerKeys == {<<G1, u, TEMP_ROLE>> : u \in Users}
\* the timeouts of key that have not fired
PendingFor(key) == {t \in timeouts : t.key = key /\ ~t.fired}
\* the timeouts of key that have not fired or whose callback has not finished
LiveFor(key) == {t \in timeouts : t.key = key}

\* C36: for each (community, member, role) key at most one expiry timer is pending at
\* any time, a new /temprole for the key having cancelled the earlier timer, and
\* tempRoleTimers contains a key exactly while a timer for it is pending (or its
\* callback is at its revoke call), under every interleaving of the revoke call of
\* a firing timer with a new /temprole for the same key.
C36_OneTimerPerKey ==
  \A key \in TimerKeys :
    /\ Cardinality(PendingFor(key)) <= 1
    /\ key \in DOMAIN tempRoleTimers <=> LiveFor(key) # {}
    /\ key \in DOMAIN tempRoleTimers => \E t \in LiveFor(key) : t.id = tempRoleTimers[key]

\* a timer of the key is pending and tempRoleTimers does not have the key: the
\* callback of the timer before it deleted the key after the new /temprole had set it
C36_PendingButForgotten ==
  \E key \in TimerKeys :
    /\ Cardinality(PendingFor(key)) = 1
    /\ LiveFor(key) = PendingFor(key)
    /\ key \notin DOMAIN tempRoleTimers

\* two timers of one key are pending: the third /temprole found no key to cancel (supporting)
C36_TwoPending ==
  \E key \in TimerKeys : Cardinality(PendingFor(key)) = 2

----------------------------------------------------------------------------
(* Properties of the ledger under amounts of either sign (SpecDrift) *)

\* C37: the total and the two counters are clamped independently, and from an empty
\* ledger every reachable state (any sequence of addXP with any integer amount and
\* source text or voice, and /resetxp) has xp <= text + voice for every entry: the
\* total never exceeds the sum of the counters.
C37_TotalAtMostSum ==
  \A k \in DOMAIN DBxp :
    /\ DBxp[k].xp <= DBxp[k].text + DBxp[k].voice
    /\ DBxp[k].xp >= 0 /\ DBxp[k].text >= 0 /\ DBxp[k].voice >= 0

\* 15 text, then -20 voice: the total is clamped to 0 and the text counter stays at 15
C37_Drifted ==
  /\ last.op = "givexp" /\ last.calls # <<>>
  /\ last.calls[1].amount = -20 /\ last.calls[1].source = "voice"
  /\ last.calls[1].out.before = 15
  /\ DBxp[mkey(G1, A)] = [xp |-> 0, text |-> 15, voice |-> 0]

----------------------------------------------------------------------------
(* Properties of awards between the steps of the sweeps (SpecInterleave) *)

\* the number of addXP calls for key and source that the step made
AwardsOf(calls, key, source) ==
  Cardinality({i \in 1..Len(calls) : calls[i].key = key /\ calls[i].source = source})

\* C38: no XP award is lost under interleaving: addXP has no suspension point, so
\* under any interleaving of message handlers, presence ticks, rank reads and
\* suspended sweeps (no reset, no negative grant) a member with n awarded messages
\* and m awarded ticks has text = 15n, voice = 5m and xp = 15n + 5m. Step by step:
\* every step adds to the counters of every member exactly 15 for each message
\* award and 5 for each tick award it made, and nothing else.
C38_EveryAwardCounted ==
  [][\A m \in Members :
       LET key == mkey(m[1], m[2])
           n == AwardsOf(last'.calls, key, "text")
           t == AwardsOf(last'.calls, key, "voice")
           e == ensureXpEntry(DBxp, key)
           f == ensureXpEntry(DBxp', key)
       IN /\ f.text = e.text + MESSAGE_XP * n
          /\ f.voice = e.voice + VOICE_XP_PER_MIN * t
          /\ f.xp = e.xp + MESSAGE_XP * n + VOICE_XP_PER_MIN * t
          /\ n + t <= 1]_vars

\* a tick awarded A while the reconciliation pass stood between two members of its
\* loop: A, with two awarded messages and two awarded ticks, has 30, 10 and 40
C38_AwardInsidePass ==
  /\ last.op = "voiceTick" /\ last.calls # <<>>
  /\ pass["sweep"].pc = "text" /\ pass["sweep"].i = 1
  /\ mkey(G1, A) \in DOMAIN DBxp
  /\ DBxp[mkey(G1, A)] = [xp |-> 40, text |-> 30, voice |-> 10]

----------------------------------------------------------------------------
(* Properties of two communities (SpecIsolation) *)

\* the ledger keys of the members of g
OwnKeys(g) == {mkey(g, u) : u \in Users}

\* the ledger entries of g
EntriesOf(db, g) == [k \in OwnKeys(g) \cap DOMAIN db |-> db[k]]

\* the members of g with an entry and the counter of each
Listed(g) == {u \in Users : mkey(g, u) \in DOMAIN DBxp}
CounterOf(g, u, key) == IF key \in DOMAIN DBxp[mkey(g, u)] THEN DBxp[mkey(g, u)][key] ELSE 0

\* the crown roles the members of g hold
CrownsOf(rs, g) ==
  [u \in Users |-> rs[<<g, u>>] \cap {TEXT_CHAMP_ROLE_NAME, VOICE_CHAMP_ROLE_NAME}]

\* the step leaves the counters, the standings and the holders of every guild but g
OthersKept(g) ==
  \A h \in Guilds \ {g} :
    /\ EntriesOf(DBxp', h) = EntriesOf(DBxp, h)
    /\ \A d \in Dims : topBy(DBxp', xpOrder', h, d) = topBy(DBxp, xpOrder, h, d)
    /\ CrownsOf(roles', h) = CrownsOf(roles, h)

\* the step reads the entries of g and no others
ReadsOwn(g) ==
  /\ last'.op = "topBy" =>
       LET top == last'.ret.top
           key == last'.ret.key
       IN /\ last'.ret.guildId = g
          /\ top.found <=> Listed(g) # {}
          /\ top.found =>
               /\ top.userId \in Listed(g)
               /\ top.xp = CounterOf(g, top.userId, key)
               /\ \A u \in Listed(g) : CounterOf(g, u, key) <= top.xp
  /\ last'.op = "leaderboard" =>
       LET entries == last'.reply.data
           key == last'.ret.key
       IN /\ last'.ret.guildId = g
          /\ Len(entries) = Cardinality(Listed(g))
          /\ {entries[i].userId : i \in 1..Len(entries)} = Listed(g)
          /\ \A i \in 1..Len(entries) : entries[i].xp = CounterOf(g, entries[i].userId, key)
  /\ (pass["sweep"].pc = "ensure" /\ pass'["sweep"].pc = "text") =>
       \A d \in Dims :
         LET id == IF d = "text" THEN pass'["sweep"].newTextId ELSE pass'["sweep"].newVoiceId
         IN /\ pass["sweep"].g = g
            /\ id # Null =>
                 /\ id \in Listed(g)
                 /\ CounterOf(g, id, d) > 0
                 /\ \A u \in Listed(g) : CounterOf(g, u, d) <= CounterOf(g, id, d)
            /\ id = Null => \A u \in Listed(g) : CounterOf(g, u, d) = 0

\* the step writes for g
WritesOwn(g) ==
  /\ last'.op = "givexp" => last'.key \in OwnKeys(g)
  /\ last'.op = "resetxp" =>
       /\ \A k \in OwnKeys(g) \cap DOMAIN DBxp : DBxp'[k] = [xp |-> 0, text |-> 0, voice |-> 0]
       /\ last'.reply.data = <<Cardinality(Listed(g))>>
  /\ pass'["sweep"].pc # "idle" => pass'["sweep"].g = g

\* C39: communities are isolated: topBy, the top-10 listings, reconciliation and
\* /resetxp for community G read and modify only ledger entries whose key is G's
\* identifier followed by a colon, so XP earned or reset in one community never
\* changes another community's counters, standings or marker holders, also when
\* one identifier is a string prefix of the other.
C39_CommunitiesIsolated ==
  [][\E g \in Guilds : ReadsOwn(g) /\ WritesOwn(g) /\ OthersKept(g)]_vars

\* /resetxp in the community whose identifier is a prefix of the other's: both have
\* entries with XP, those of the first are zeroed, those of the second are kept
C39_ResetBesidePrefixed ==
  /\ last.op = "resetxp"
  /\ mkey(G1, A) \in DOMAIN DBxp /\ DBxp[mkey(G1, A)].xp = 0
  /\ OwnKeys(G2) \subseteq DOMAIN DBxp
  /\ DBxp[mkey(G2, A)].xp = 30 /\ DBxp[mkey(G2, B)].xp = 50
  /\ StartsWith(G2, G1)

----------------------------------------------------------------------------
(* Properties of the promotion after failed platform calls (SpecOnboard) *)

\* the sweep found both roles in the guild and none of its platform calls failed
CleanSweep ==
  /\ Swept
  /\ {NEWBIE_ROLE_NAME, NPC_ROLE_NAME} \subseteq last.ret.guildRoles
  /\ last.ret.failRemove = {} /\ last.ret.failAdd = {}

\* a sweep has tried to promote u, at this time or earlier: the onboarding period
\* of u has elapsed and its newbieSince is null
TriedBefore(u) ==
  /\ mkey(G1, u) \in DOMAIN DBmembers
  /\ now - DBmembers[mkey(G1, u)].joinedAt >= NEWBIE_DURATION_MS
  /\ DBmembers[mkey(G1, u)].newbieSince = NullTime

\* C40 as stated: the promotion converges after transient failures: if the role
\* removal or the role grant fails while a due member is being promoted, a later
\* hourly sweep promotes that member again, so that the member holds the graduated
\* marker and not the onboarding marker once the platform calls succeed: after a
\* sweep without failures every member a sweep has tried to promote stands promoted.
C40_FailedPromotionRetried ==
  CleanSweep => \A u \in Users : TriedBefore(u) => IsPromoted(u)

\* the removal failed for A in the sweep one onboarding period after the join; the
\* sweep an hour later, without failures, found no one due and A keeps the
\* onboarding marker
C40_StillOnboardingAfterCleanSweep ==
  /\ CleanSweep
  /\ last.ret.promoted = {}
  /\ TriedBefore(A)
  /\ now - DBmembers[mkey(G1, A)].joinedAt = NEWBIE_DURATION_MS + HourMs
  /\ last.ret.members[mkey(G1, A)].newbieSince = NullTime
  /\ NEWBIE_ROLE_NAME \in roles[<<G1, A>>]

====
